---------------------------- MODULE Spec2Model ----------------------------
(***************************************************************************)
(* A model of the datavisualizer inference-and-synthesis pipeline:         *)
(*                                                                         *)
(*   datasetAnalyzer   inferColumnType, analyzeColumn, analyzeDataset      *)
(*   chartRecommender  CHART_TYPES, calculateSuitability, recommendCharts  *)
(*   promptParser      normalizeText, findChartType, findFieldMatches,     *)
(*                     findAggregation, parsePrompt                        *)
(*   vegaSpecBuilder   build*Spec, buildSpecFromIntent                     *)
(*   insightGenerator  the categorical-column test of generateInsights     *)
(*                                                                         *)
(* Every stage is a pure function, so each is an operator and each has a   *)
(* specification whose initial states enumerate its inputs and whose       *)
(* actions apply it:                                                       *)
(*                                                                         *)
(*   SpecInfer      a column of raw values        -> its ColumnType        *)
(*   SpecAnalyze    a row sequence                -> its DatasetSchema     *)
(*   SpecRecommend  a schema                      -> the recommendations   *)
(*   SpecDetect     a prompt                      -> the detected type     *)
(*   SpecParse      a prompt and a schema         -> intent -> spec        *)
(*                                                                         *)
(* Strings are TLA+ strings, read character by character with SubSeq.      *)
(* An absent optional string (undefined) is the empty string Undefined;    *)
(* column names are non-empty, so the truthiness test of the source        *)
(* (!xField, yField || xField) is a comparison with Undefined.             *)
(***************************************************************************)
EXTENDS Integers, Sequences, FiniteSets, TLC

VARIABLES
    pc,              \* the step the pipeline under check has reached
    values,          \* inferColumnType: the raw values of one column
    lenientDates,    \* whether the engine's Date.parse accepts bare integers
    columnType,      \* inferColumnType: the inferred type
    rows,            \* analyzeDataset: the row sequence
    schema,          \* the DatasetSchema (analyzeDataset's result, or an input)
    prompt,          \* the free text given to the parser
    detected,        \* findChartType's result
    recommendations, \* recommendCharts' result
    intent,          \* parsePrompt's result
    compiled,        \* buildSpecFromIntent's result
    dataset,         \* useDataset: the active dataset, or NoDataset
    isLoading,       \* useDataset: a load is under way
    error,           \* useDataset: the message of the last failed load, or NoError
    loads,           \* useDataset: the loadFile calls, each with its file and position
    lastToast,       \* useDataset: the last toast shown
    xHint,           \* generateInsights: the xField argument
    yHint,           \* generateInsights: the yField argument
    insights,        \* generateInsights' result
    selectedChart,   \* useChartGeneration: the selected recommendation, or NoChart
    customSpec,      \* useChartGeneration: the spec generated from a prompt, or NoSpec
    currentIntent,   \* useChartGeneration: the current intent, or NoIntent
    history,         \* usePromptHistory: the prompt history, most recent first
    pending,         \* Index: the timeouts of handlePromptSubmit not yet fired
    now,             \* Date.now(), in milliseconds
    isGenerating,    \* Index: a prompt is being processed
    lastPrompt,      \* Index: the prompt submitted last
    calls            \* the number of counted operations made so far

vars == <<pc, values, lenientDates, columnType, rows, schema, prompt,
          detected, recommendations, intent, compiled,
          dataset, isLoading, error, loads, lastToast, xHint, yHint, insights,
          selectedChart, customSpec, currentIntent,
          history, pending, now, isGenerating, lastPrompt, calls>>

sessionVars == <<dataset, isLoading, error, loads, lastToast>>

insightVars == <<xHint, yHint, insights>>

chartVars == <<selectedChart, customSpec, currentIntent>>

pageVars == <<history, pending, now, isGenerating, lastPrompt, calls>>

-----------------------------------------------------------------------------
(* Strings *)

Undefined == ""

Char(s, i) == SubSeq(s, i, i)

Digits == {"0", "1", "2", "3", "4", "5", "6", "7", "8", "9"}

Whitespace == {" ", "\t", "\n"}

\* String.prototype.includes
Includes(s, k) ==
    \E i \in 1..(Len(s) - Len(k) + 1) : SubSeq(s, i, i + Len(k) - 1) = k

\* s.replace(/,/g, '')
RECURSIVE StripCommas(_)
StripCommas(s) ==
    IF s = "" THEN ""
    ELSE (IF Char(s, 1) = "," THEN "" ELSE Char(s, 1))
             \o StripCommas(SubSeq(s, 2, Len(s)))

\* the leading white space parseFloat skips
RECURSIVE TrimStart(_)
TrimStart(s) ==
    IF s # "" /\ Char(s, 1) \in Whitespace
    THEN TrimStart(SubSeq(s, 2, Len(s)))
    ELSE s

\* isNaN(parseFloat(s)): parseFloat reads the longest numeric prefix after the
\* leading white space and an optional sign, and is NaN when there is none
ParseFloatIsNaN(s) ==
    LET t == TrimStart(s)
        u == IF t # "" /\ Char(t, 1) \in {"+", "-"} THEN SubSeq(t, 2, Len(t)) ELSE t
    IN  ~ \/ (u # "" /\ Char(u, 1) \in Digits)
          \/ (Len(u) >= 2 /\ Char(u, 1) = "." /\ Char(u, 2) \in Digits)
          \/ (Len(u) >= 8 /\ SubSeq(u, 1, 8) = "Infinity")

\* pattern.test(s) for an anchored pattern written with d for \d
MatchesPattern(s, p) ==
    /\ Len(s) >= Len(p)
    /\ \A i \in 1..Len(p) :
          IF Char(p, i) = "d" THEN Char(s, i) \in Digits ELSE Char(s, i) = Char(p, i)

-----------------------------------------------------------------------------
(* datasetAnalyzer: raw values *)

\* A raw cell value: a JavaScript value with its typeof tag.
Str(s) == [t |-> "string", v |-> s]
Num(s) == [t |-> "number", v |-> s]
Bool(s) == [t |-> "boolean", v |-> s]
Null == [t |-> "null", v |-> ""]
Undef == [t |-> "undefined", v |-> ""]
NaN == Num("NaN")

\* v !== null && v !== undefined && v !== ''
IsNonNull(v) == ~ (v = Null \/ v = Undef \/ v = Str(""))

BOOLEAN_TOKENS == {"true", "false", "True", "False", "0", "1"}

IsBooleanValue(v) ==
    \/ v.t = "boolean"
    \/ (v.t = "string" /\ v.v \in BOOLEAN_TOKENS)

IsNumericValue(v) ==
    IF v.t = "number" THEN v # NaN
    ELSE IF v.t = "string" THEN ~ ParseFloatIsNaN(StripCommas(v.v))
    ELSE FALSE

datePatterns == <<"dddd-dd-dd", "dd/dd/dddd", "dd.dd.dddd", "dddd/dd/dd">>

\* Date.parse(s) is a number. The ECMAScript date-time format and the usual
\* month-name form parse everywhere; a bare integer such as "1" parses under
\* V8's legacy parser (January 2001) and not under SpiderMonkey's, so it
\* follows the engine; other text is not a date.
DatesEveryEngineParses == {"2024-01-01", "2024-02-01", "Jan 5, 2024"}

DatesLenientEnginesParse == {"1", "2", "3"}

DateParses(s, lenient) ==
    \/ s \in DatesEveryEngineParses
    \/ (lenient /\ s \in DatesLenientEnginesParse)

IsDateValue(v, lenient) ==
    /\ v.t = "string"
    /\ \/ \E i \in DOMAIN datePatterns : MatchesPattern(v.v, datePatterns[i])
       \/ DateParses(v.v, lenient)

\* Array.prototype.filter is SelectSeq.

\* dateValues.length > nonNullValues.length * 0.8. With n a small integer the
\* double n * 0.8 is the nearest double to 4n/5, so the test is 5d > 4n.
inferColumnType_atLeast(vals, lenient) ==
    LET nonNullValues == SelectSeq(vals, IsNonNull)
        booleanValues == SelectSeq(nonNullValues, IsBooleanValue)
        numericValues == SelectSeq(nonNullValues, IsNumericValue)
        IsDate(v) == IsDateValue(v, lenient)
        dateValues == SelectSeq(nonNullValues, IsDate)
    IN  IF Len(nonNullValues) = 0 THEN "unknown"
        ELSE IF Len(booleanValues) = Len(nonNullValues) THEN "boolean"
        ELSE IF Len(numericValues) = Len(nonNullValues) THEN "number"
        ELSE IF 5 * Len(dateValues) >= 4 * Len(nonNullValues) THEN "datetime"
        ELSE "string"

inferColumnType(vals, lenient) ==
    LET nonNullValues == SelectSeq(vals, IsNonNull)
        booleanValues == SelectSeq(nonNullValues, IsBooleanValue)
        numericValues == SelectSeq(nonNullValues, IsNumericValue)
        IsDate(v) == IsDateValue(v, lenient)
        dateValues == SelectSeq(nonNullValues, IsDate)
    IN  IF Len(nonNullValues) = 0 THEN "unknown"
        ELSE IF Len(booleanValues) = Len(nonNullValues) /\ Len(nonNullValues) > 0
             THEN "boolean"
        ELSE IF Len(numericValues) = Len(nonNullValues) THEN "number"
        ELSE IF 5 * Len(dateValues) > 4 * Len(nonNullValues) THEN "datetime"
        ELSE "string"

ColumnTypes == {"number", "string", "datetime", "boolean", "unknown"}


-----------------------------------------------------------------------------
(* Array.prototype.sort *)

\* Array.prototype.sort with the comparator (a, b) => b.key - a.key, over
\* <<key, item>> pairs: descending by key and stable (ECMAScript 2019), so an
\* entry goes behind every entry whose key is at least its own.
RECURSIVE InsertByKeyDesc(_, _)
InsertByKeyDesc(sorted, p) ==
    IF sorted = << >> THEN <<p>>
    ELSE IF Head(sorted)[1] >= p[1]
         THEN <<Head(sorted)>> \o InsertByKeyDesc(Tail(sorted), p)
         ELSE <<p>> \o sorted

RECURSIVE SortByKeyDesc(_)
SortByKeyDesc(pairs) ==
    IF pairs = << >> THEN << >>
    ELSE InsertByKeyDesc(SortByKeyDesc(SubSeq(pairs, 1, Len(pairs) - 1)),
                         pairs[Len(pairs)])

\* the items of a sorted sequence of pairs
Items(pairs) == [i \in DOMAIN pairs |-> pairs[i][2]]

-----------------------------------------------------------------------------
(* datasetAnalyzer: rows and schema *)

\* A row is a JavaScript object: its entries <<key, value>> in insertion
\* order, with distinct keys.
OwnKeys(row) == [i \in DOMAIN row |-> row[i][1]]

HasKey(row, name) == \E i \in DOMAIN row : row[i][1] = name

\* row[name]: undefined when the row has no such key
Get(row, name) ==
    IF HasKey(row, name)
    THEN row[CHOOSE i \in DOMAIN row : row[i][1] = name][2]
    ELSE Undef

\* a canonical array index: decimal digits without a leading zero
IsArrayIndex(k) ==
    /\ k # ""
    /\ Len(k) <= 9
    /\ \A i \in 1..Len(k) : Char(k, i) \in Digits
    /\ (Len(k) = 1 \/ Char(k, 1) # "0")

DigitValue(c) == CHOOSE n \in 0..9 : Char("0123456789", n + 1) = c

RECURSIVE ToNat(_)
ToNat(k) ==
    IF k = "" THEN 0
    ELSE 10 * ToNat(SubSeq(k, 1, Len(k) - 1)) + DigitValue(Char(k, Len(k)))

\* Object.keys: the integer-like keys in ascending numeric order, then the
\* other keys in insertion order (OrdinaryOwnPropertyKeys)
ObjectKeys(row) ==
    LET keys == OwnKeys(row)
        indices == SelectSeq(keys, IsArrayIndex)
        NotIndex(k) == ~ IsArrayIndex(k)
    IN  Items(SortByKeyDesc([i \in DOMAIN indices |-> <<0 - ToNat(indices[i]), indices[i]>>]))
            \o SelectSeq(keys, NotIndex)

Range(seq) == {seq[i] : i \in DOMAIN seq}

\* analyzeColumn, without the sampleValues and the nullRatio it also records
analyzeColumn(name, vals, lenient) ==
    LET IsNull(v) == ~ IsNonNull(v)
    IN  [name |-> name,
         type |-> inferColumnType(vals, lenient),
         uniqueCount |-> Cardinality(Range(SelectSeq(vals, IsNonNull))),
         nullCount |-> Len(SelectSeq(vals, IsNull))]

\* analyzeDataset: only the first row's keys become columns, derived from the
\* values of the first row alone
analyzeDataset_firstRowOnly(data, lenient) ==
    IF Len(data) = 0 THEN [columns |-> << >>, rowCount |-> 0]
    ELSE LET columnNames == ObjectKeys(data[1])
         IN  [columns |-> [c \in DOMAIN columnNames |->
                              analyzeColumn(columnNames[c],
                                            <<Get(data[1], columnNames[c])>>, lenient)],
              rowCount |-> Len(data)]

\* analyzeDataset, without the fileName and fileType it passes through
analyzeDataset(data, lenient) ==
    IF Len(data) = 0 THEN [columns |-> << >>, rowCount |-> 0]
    ELSE LET columnNames == ObjectKeys(data[1])
         IN  [columns |-> [c \in DOMAIN columnNames |->
                              analyzeColumn(columnNames[c],
                                            [r \in DOMAIN data |-> Get(data[r], columnNames[c])],
                                            lenient)],
              rowCount |-> Len(data)]

-----------------------------------------------------------------------------
(* vegaSpecBuilder *)

\* One encoding channel of a Vega-Lite spec; the fields a builder leaves out
\* are "none".
Channel(field, type, aggregate) ==
    [field |-> field, type |-> type, aggregate |-> aggregate,
     stack |-> "none", bin |-> "none"]

NoChannel == Channel(Undefined, "none", "none")

\* spec.encoding.color = { field: color, type: 'nominal', scale: ... } when a
\* color field is given
ColorChannel(color) ==
    IF color # Undefined THEN Channel(color, "nominal", "none") ELSE NoChannel

\* A VegaLiteSpec: the mark, the inline data and the encoding channels (or the
\* layers of a combo). The $schema, config, width and height are the same in
\* every spec and are left out.
VegaLiteSpec(mark, data, x, y, color, size, theta, layer) ==
    [mark |-> mark, data |-> data, x |-> x, y |-> y, color |-> color,
     size |-> size, theta |-> theta, layer |-> layer]

\* null, where a spec is expected
NoSpec == VegaLiteSpec("null", << >>, NoChannel, NoChannel, NoChannel, NoChannel,
                       NoChannel, << >>)

buildBarSpec(data, x, y, color, horizontal, stacked) ==
    LET category == Channel(x, "nominal", "none")
        plain == Channel(y, "quantitative", "sum")
        measure == IF color # Undefined /\ stacked
                   THEN [plain EXCEPT !.stack = "normalize"]
                   ELSE plain
    IN  VegaLiteSpec("bar", data,
                     IF horizontal THEN measure ELSE category,
                     IF horizontal THEN category ELSE measure,
                     ColorChannel(color), NoChannel, NoChannel, << >>)

buildLineSpec(data, x, y, color) ==
    VegaLiteSpec("line", data, Channel(x, "temporal", "none"),
                 Channel(y, "quantitative", "sum"),
                 ColorChannel(color), NoChannel, NoChannel, << >>)

buildAreaSpec(data, x, y, color, stacked) ==
    VegaLiteSpec("area", data, Channel(x, "temporal", "none"),
                 [Channel(y, "quantitative", "sum") EXCEPT
                     !.stack = IF stacked THEN "normalize" ELSE "none"],
                 ColorChannel(color), NoChannel, NoChannel, << >>)

buildScatterSpec(data, x, y, color, size) ==
    VegaLiteSpec("circle", data, Channel(x, "quantitative", "none"),
                 Channel(y, "quantitative", "none"),
                 ColorChannel(color),
                 IF size # Undefined THEN Channel(size, "quantitative", "none")
                 ELSE NoChannel,
                 NoChannel, << >>)

buildHistogramSpec(data, field) ==
    VegaLiteSpec("histogram", data,
                 [Channel(field, "quantitative", "none") EXCEPT !.bin = "maxbins 20"],
                 Channel(Undefined, "quantitative", "count"),
                 NoChannel, NoChannel, NoChannel, << >>)

buildBoxplotSpec(data, category, value) ==
    VegaLiteSpec("boxplot", data, Channel(category, "nominal", "none"),
                 Channel(value, "quantitative", "none"),
                 Channel(category, "nominal", "none"), NoChannel, NoChannel, << >>)

buildHeatmapSpec(data, x, y, color) ==
    VegaLiteSpec("rect", data, Channel(x, "nominal", "none"),
                 Channel(y, "nominal", "none"),
                 Channel(color, "quantitative", "mean"), NoChannel, NoChannel, << >>)

buildPieSpec(data, category, value, donut) ==
    VegaLiteSpec(IF donut THEN "arc innerRadius 50" ELSE "arc innerRadius 0", data,
                 NoChannel, NoChannel, Channel(category, "nominal", "none"),
                 NoChannel, Channel(value, "quantitative", "sum"), << >>)

buildComboSpec(data, x, barY, lineY) ==
    VegaLiteSpec("layer", data, NoChannel, NoChannel, NoChannel, NoChannel, NoChannel,
                 << [mark |-> "bar", x |-> Channel(x, "nominal", "none"),
                     y |-> Channel(barY, "quantitative", "sum")],
                    [mark |-> "line", x |-> Channel(x, "nominal", "none"),
                     y |-> Channel(lineY, "quantitative", "sum")] >>)

\* a || b on optional strings
Or(a, b) == IF a # Undefined THEN a ELSE b

-----------------------------------------------------------------------------
(* chartRecommender *)

ChartTypeInfo(type, category, minNumeric, minCategorical, needsDatetime) ==
    [type |-> type, category |-> category,
     requirements |-> [minNumeric |-> minNumeric, minCategorical |-> minCategorical,
                       needsDatetime |-> needsDatetime]]

CHART_TYPES == <<
    ChartTypeInfo("bar",            "comparison",   1, 1, FALSE),
    ChartTypeInfo("bar-horizontal", "comparison",   1, 1, FALSE),
    ChartTypeInfo("bar-stacked",    "composition",  1, 2, FALSE),
    ChartTypeInfo("line",           "trend",        1, 0, TRUE),
    ChartTypeInfo("area",           "trend",        1, 0, TRUE),
    ChartTypeInfo("area-stacked",   "trend",        1, 1, TRUE),
    ChartTypeInfo("scatter",        "relationship", 2, 0, FALSE),
    ChartTypeInfo("bubble",         "relationship", 3, 0, FALSE),
    ChartTypeInfo("histogram",      "distribution", 1, 0, FALSE),
    ChartTypeInfo("boxplot",        "distribution", 1, 1, FALSE),
    ChartTypeInfo("heatmap",        "relationship", 1, 2, FALSE),
    ChartTypeInfo("pie",            "composition",  1, 1, FALSE),
    ChartTypeInfo("donut",          "composition",  1, 1, FALSE),
    ChartTypeInfo("combo",          "comparison",   2, 1, FALSE) >>

\* the distinct-value count at which a string column stops being categorical
CategoricalLimit == 50

IsNumberColumn(c) == c.type = "number"

IsStringColumn(c) == c.type = "string"

IsDatetimeColumn(c) == c.type = "datetime"

IsCategoricalColumn(c) == c.type = "string" /\ c.uniqueCount < CategoricalLimit

\* getColumnsByType with the datetime columns counted as categorical too
getColumnsByType_datetimeCategorical(sch) ==
    LET IsEither(c) == IsCategoricalColumn(c) \/ IsDatetimeColumn(c)
    IN  [numeric |-> SelectSeq(sch.columns, IsNumberColumn),
         categorical |-> SelectSeq(sch.columns, IsEither),
         datetime |-> SelectSeq(sch.columns, IsDatetimeColumn)]

getColumnsByType(sch) ==
    [numeric |-> SelectSeq(sch.columns, IsNumberColumn),
     categorical |-> SelectSeq(sch.columns, IsCategoricalColumn),
     datetime |-> SelectSeq(sch.columns, IsDatetimeColumn)]

Min(a, b) == IF a <= b THEN a ELSE b

\* the score of an archetype that has passed the gate, before Math.min
MatchScore(chartInfo, numericCount, categoricalCount, hasDatetime) ==
    LET requirements == chartInfo.requirements
    IN  50
        + (IF numericCount = requirements.minNumeric THEN 10 ELSE 0)
        + (IF categoricalCount = requirements.minCategorical THEN 10 ELSE 0)
        + (IF requirements.needsDatetime = hasDatetime THEN 10 ELSE 0)
        + (IF chartInfo.type = "bar" /\ categoricalCount >= 1 /\ numericCount >= 1
           THEN 15 ELSE 0)
        + (IF chartInfo.type = "line" /\ hasDatetime THEN 20 ELSE 0)
        + (IF chartInfo.type = "scatter" /\ numericCount >= 2 THEN 15 ELSE 0)
        + (IF chartInfo.type = "pie" /\ categoricalCount = 1 /\ numericCount = 1
           THEN 10 ELSE 0)

\* calculateSuitability without the categorical requirement
calculateSuitability_noCategoricalGate(chartInfo, numericCount, categoricalCount, hasDatetime) ==
    LET requirements == chartInfo.requirements
    IN  IF numericCount < requirements.minNumeric THEN 0
        ELSE IF requirements.needsDatetime /\ ~ hasDatetime THEN 0
        ELSE Min(100, MatchScore(chartInfo, numericCount, categoricalCount, hasDatetime))

\* calculateSuitability with the base score added again in place of Math.min
calculateSuitability_unclamped(chartInfo, numericCount, categoricalCount, hasDatetime) ==
    LET requirements == chartInfo.requirements
    IN  IF numericCount < requirements.minNumeric THEN 0
        ELSE IF categoricalCount < requirements.minCategorical THEN 0
        ELSE IF requirements.needsDatetime /\ ~ hasDatetime THEN 0
        ELSE 50 + MatchScore(chartInfo, numericCount, categoricalCount, hasDatetime)

calculateSuitability(chartInfo, numericCount, categoricalCount, hasDatetime) ==
    LET requirements == chartInfo.requirements
    IN  IF numericCount < requirements.minNumeric THEN 0
        ELSE IF categoricalCount < requirements.minCategorical THEN 0
        ELSE IF requirements.needsDatetime /\ ~ hasDatetime THEN 0
        ELSE Min(100, MatchScore(chartInfo, numericCount, categoricalCount, hasDatetime))

generateChartTitle(chartInfo, encodings) ==
    LET y == encodings.y
        x == encodings.x
        color == encodings.color
    IN  CASE chartInfo.category = "trend" -> y \o " over " \o x
          [] chartInfo.category = "comparison" ->
                IF color # Undefined THEN y \o " by " \o x \o " and " \o color
                ELSE y \o " by " \o x
          [] chartInfo.category = "distribution" -> "Distribution of " \o Or(y, x)
          [] chartInfo.category = "relationship" -> y \o " vs " \o x
          [] chartInfo.category = "composition" -> "Composition of " \o y \o " by " \o x

\* the body of recommendCharts' loop for one archetype: the recommendation it
\* would push, with the score it computed and the spec it built (NoSpec when
\* the switch builds none)
\* suggestedEncodings with the first datetime column preferred for x by
\* every archetype
suggestedEncodings_datetimeFirst(sch, chartInfo) ==
    LET cols == getColumnsByType(sch)
        numeric == cols.numeric
        categorical == cols.categorical
        datetime == cols.datetime
    IN  [x |-> IF Len(datetime) > 0 THEN datetime[1].name
               ELSE IF Len(categorical) > 0 THEN categorical[1].name
               ELSE IF Len(numeric) > 0 THEN numeric[1].name
               ELSE Undefined,
         y |-> IF Len(numeric) > 0 THEN numeric[1].name ELSE Undefined,
         color |-> IF Len(categorical) > 1 THEN categorical[2].name
                   ELSE IF Len(categorical) = 1 /\ chartInfo.type # "pie"
                           /\ chartInfo.type # "donut"
                        THEN categorical[1].name
                   ELSE Undefined,
         size |-> IF Len(numeric) > 2 /\ chartInfo.type \in {"bubble", "scatter"}
                  THEN numeric[3].name ELSE Undefined]

\* the suggestedEncodings recommendCharts assigns to an archetype
suggestedEncodings(sch, chartInfo) ==
    LET cols == getColumnsByType(sch)
        numeric == cols.numeric
        categorical == cols.categorical
        datetime == cols.datetime
    IN  [x |-> IF chartInfo.requirements.needsDatetime /\ Len(datetime) > 0
               THEN datetime[1].name
               ELSE IF Len(categorical) > 0 THEN categorical[1].name
               ELSE IF Len(numeric) > 0 THEN numeric[1].name
               ELSE Undefined,
         y |-> IF Len(numeric) > 0 THEN numeric[1].name ELSE Undefined,
         color |-> IF Len(categorical) > 1 THEN categorical[2].name
                   ELSE IF Len(categorical) = 1 /\ chartInfo.type # "pie"
                           /\ chartInfo.type # "donut"
                        THEN categorical[1].name
                   ELSE Undefined,
         size |-> IF Len(numeric) > 2 /\ chartInfo.type \in {"bubble", "scatter"}
                  THEN numeric[3].name ELSE Undefined]

Candidate(data, sch, chartInfo) ==
    LET cols == getColumnsByType(sch)
        numeric == cols.numeric
        categorical == cols.categorical
        datetime == cols.datetime
        score == calculateSuitability(chartInfo, Len(numeric), Len(categorical),
                                      Len(datetime) > 0)
        encodings == suggestedEncodings(sch, chartInfo)
        x == Or(encodings.x, "")
        y == Or(encodings.y, x)
        color == encodings.color
        size == encodings.size
        vegaLiteSpec ==
            CASE chartInfo.type = "bar" -> buildBarSpec(data, x, y, color, FALSE, FALSE)
              [] chartInfo.type = "bar-horizontal" -> buildBarSpec(data, x, y, color, TRUE, FALSE)
              [] chartInfo.type = "bar-stacked" -> buildBarSpec(data, x, y, color, FALSE, TRUE)
              [] chartInfo.type = "line" -> buildLineSpec(data, x, y, color)
              [] chartInfo.type = "area" -> buildAreaSpec(data, x, y, color, FALSE)
              [] chartInfo.type = "area-stacked" -> buildAreaSpec(data, x, y, color, TRUE)
              [] chartInfo.type = "scatter" -> buildScatterSpec(data, x, y, color, size)
              [] chartInfo.type = "bubble" -> buildScatterSpec(data, x, y, color, size)
              [] chartInfo.type = "histogram" -> buildHistogramSpec(data, x)
              [] chartInfo.type = "boxplot" -> buildBoxplotSpec(data, x, y)
              [] chartInfo.type = "heatmap" -> buildHeatmapSpec(data, x, Or(color, y), y)
              [] chartInfo.type = "pie" -> buildPieSpec(data, x, y, FALSE)
              [] chartInfo.type = "donut" -> buildPieSpec(data, x, y, TRUE)
              [] chartInfo.type = "combo" ->
                    IF Len(numeric) >= 2 THEN buildComboSpec(data, x, y, numeric[2].name)
                    ELSE NoSpec
    IN  [type |-> chartInfo.type,
         title |-> generateChartTitle(chartInfo, encodings),
         category |-> chartInfo.category,
         suitabilityScore |-> score,
         suggestedEncodings |-> encodings,
         vegaLiteSpec |-> vegaLiteSpec]

\* if (score > 0) { ... if (vegaLiteSpec) recommendations.push(...) }
IsPushed(rec) == rec.suitabilityScore > 0 /\ rec.vegaLiteSpec # NoSpec

\* the recommendations array when the loop over CHART_TYPES ends
collectRecommendations(data, sch) ==
    SelectSeq([i \in DOMAIN CHART_TYPES |-> Candidate(data, sch, CHART_TYPES[i])],
              IsPushed)

\* recommendations.sort(...) with ties in reverse order
sortRecommendations_tiesReversed(recs) ==
    LET sorted == SortByKeyDesc([i \in DOMAIN recs |->
                                    <<recs[Len(recs) + 1 - i].suitabilityScore,
                                      recs[Len(recs) + 1 - i]>>])
    IN  Items(sorted)

\* recommendations.sort((a, b) => b.suitabilityScore - a.suitabilityScore)
sortRecommendations(recs) ==
    Items(SortByKeyDesc([i \in DOMAIN recs |-> <<recs[i].suitabilityScore, recs[i]>>]))

recommendCharts(data, sch) == sortRecommendations(collectRecommendations(data, sch))

\* no recommendation (null), in the shape of a ChartRecommendation
NoChart ==
    [type |-> Undefined, category |-> Undefined,
     suggestedEncodings |-> [x |-> Undefined, y |-> Undefined, color |-> Undefined,
                             size |-> Undefined],
     vegaLiteSpec |-> NoSpec, title |-> Undefined, suitabilityScore |-> 0]

-----------------------------------------------------------------------------
(* promptParser *)

\* The Turkish letters outside ASCII are written with one stand-in character
\* each, none of them a letter, a digit, white space or punctuation of
\* normalizeText, so that every keyword keeps its length and its occurrences:
\*   $ c-cedilla   @ soft g   | dotless i   % o-diaeresis   & s-cedilla
\*   # u-diaeresis   ~ capital u-diaeresis

\* Object.keys(CHART_TYPE_KEYWORDS) in declaration order, each with its types
CHART_TYPE_KEYWORDS == <<
    <<"bar", <<"bar">> >>,
    <<"bar chart", <<"bar">> >>,
    <<"$ubuk", <<"bar">> >>,
    <<"$ubuk grafik", <<"bar">> >>,
    <<"s#tun", <<"bar">> >>,
    <<"s#tun grafik", <<"bar">> >>,
    <<"horizontal bar", <<"bar-horizontal">> >>,
    <<"yatay $ubuk", <<"bar-horizontal">> >>,
    <<"stacked bar", <<"bar-stacked">> >>,
    <<"y|@|lm|& $ubuk", <<"bar-stacked">> >>,
    <<"line", <<"line">> >>,
    <<"line chart", <<"line">> >>,
    <<"$izgi", <<"line">> >>,
    <<"$izgi grafik", <<"line">> >>,
    <<"trend", <<"line">> >>,
    <<"zaman serisi", <<"line">> >>,
    <<"time series", <<"line">> >>,
    <<"area", <<"area">> >>,
    <<"area chart", <<"area">> >>,
    <<"alan", <<"area">> >>,
    <<"alan grafik", <<"area">> >>,
    <<"stacked area", <<"area-stacked">> >>,
    <<"y|@|lm|& alan", <<"area-stacked">> >>,
    <<"scatter", <<"scatter">> >>,
    <<"scatter plot", <<"scatter">> >>,
    <<"sa$|l|m", <<"scatter">> >>,
    <<"nokta", <<"scatter">> >>,
    <<"bubble", <<"bubble">> >>,
    <<"bubble chart", <<"bubble">> >>,
    <<"balon", <<"bubble">> >>,
    <<"histogram", <<"histogram">> >>,
    <<"histograms", <<"histogram">> >>,
    <<"da@|l|m", <<"histogram", "boxplot">> >>,
    <<"distribution", <<"histogram", "boxplot">> >>,
    <<"boxplot", <<"boxplot">> >>,
    <<"box plot", <<"boxplot">> >>,
    <<"kutu", <<"boxplot">> >>,
    <<"heatmap", <<"heatmap">> >>,
    <<"heat map", <<"heatmap">> >>,
    <<"|s| haritas|", <<"heatmap">> >>,
    <<"pie", <<"pie">> >>,
    <<"pie chart", <<"pie">> >>,
    <<"pasta", <<"pie">> >>,
    <<"pasta grafik", <<"pie">> >>,
    <<"donut", <<"donut">> >>,
    <<"halka", <<"donut">> >>,
    <<"combo", <<"combo">> >>,
    <<"combined", <<"combo">> >>,
    <<"birle&ik", <<"combo">> >> >>

TIME_KEYWORDS == <<
    "time", "date", "month", "year", "week", "day", "quarter",
    "zaman", "tarih", "ay", "y|l", "hafta", "g#n", "$eyrek",
    "son", "last", "recent", "son d%nem", "trend", "over time" >>

\* Object.entries(AGGREGATION_KEYWORDS) in declaration order
AGGREGATION_KEYWORDS == <<
    <<"total", "sum">>,
    <<"toplam", "sum">>,
    <<"sum", "sum">>,
    <<"average", "mean">>,
    <<"ortalama", "mean">>,
    <<"mean", "mean">>,
    <<"count", "count">>,
    <<"say|", "count">>,
    <<"adet", "count">>,
    <<"minimum", "min">>,
    <<"min", "min">>,
    <<"en d#&#k", "min">>,
    <<"maximum", "max">>,
    <<"max", "max">>,
    <<"en y#ksek", "max">> >>

UpperCase == "ABCDEFGHIJKLMNOPQRSTUVWXYZ~"

LowerCase == "abcdefghijklmnopqrstuvwxyz#"

\* String.prototype.toLowerCase, one character
LowerChar(c) ==
    IF \E i \in 1..Len(UpperCase) : Char(UpperCase, i) = c
    THEN Char(LowerCase, CHOOSE i \in 1..Len(UpperCase) : Char(UpperCase, i) = c)
    ELSE c

RECURSIVE toLowerCase(_)
toLowerCase(s) ==
    IF s = "" THEN ""
    ELSE LowerChar(Char(s, 1)) \o toLowerCase(SubSeq(s, 2, Len(s)))

\* the class [.,!?;:'"()[\]{}]
Punctuation ==
    {".", ",", "!", "?", ";", ":", "'", "\"", "(", ")", "[", "]", "{", "}"}

\* .replace(/[.,!?;:'"()[\]{}]/g, ' ')
RECURSIVE ReplacePunctuation(_)
ReplacePunctuation(s) ==
    IF s = "" THEN ""
    ELSE (IF Char(s, 1) \in Punctuation THEN " " ELSE Char(s, 1))
             \o ReplacePunctuation(SubSeq(s, 2, Len(s)))

\* .replace(/\s+/g, ' ')
RECURSIVE CollapseWhitespace(_)
CollapseWhitespace(s) ==
    IF s = "" THEN ""
    ELSE IF Char(s, 1) \in Whitespace
         THEN " " \o CollapseWhitespace(TrimStart(s))
         ELSE Char(s, 1) \o CollapseWhitespace(SubSeq(s, 2, Len(s)))

RECURSIVE TrimEnd(_)
TrimEnd(s) ==
    IF s # "" /\ Char(s, Len(s)) \in Whitespace
    THEN TrimEnd(SubSeq(s, 1, Len(s) - 1))
    ELSE s

\* .trim()
Trim(s) == TrimEnd(TrimStart(s))

normalizeText(text) ==
    Trim(CollapseWhitespace(ReplacePunctuation(toLowerCase(text))))

\* Object.keys(CHART_TYPE_KEYWORDS).sort((a, b) => b.length - a.length), each
\* keyword still with its types
sortedKeywords ==
    Items(SortByKeyDesc([i \in DOMAIN CHART_TYPE_KEYWORDS |->
                            <<Len(CHART_TYPE_KEYWORDS[i][1]), CHART_TYPE_KEYWORDS[i]>>]))

\* the first entry of a keyword list that the text includes; 0 when none
FirstIncluded(normalized, keywords) ==
    IF \E i \in DOMAIN keywords : Includes(normalized, keywords[i][1])
    THEN CHOOSE i \in DOMAIN keywords :
            /\ Includes(normalized, keywords[i][1])
            /\ \A j \in 1..(i - 1) : ~ Includes(normalized, keywords[j][1])
    ELSE 0

\* the result of the two loops of findChartType over a keyword order
ChartTypeIn(normalized, keywords) ==
    LET hit == FirstIncluded(normalized, keywords)
    IN  IF hit # 0 THEN keywords[hit][2][1]
        ELSE IF \E i \in DOMAIN TIME_KEYWORDS : Includes(normalized, TIME_KEYWORDS[i])
             THEN "line"
        ELSE Undefined

\* findChartType scanning the keywords in declaration order, unsorted
findChartType_unsorted(text) == ChartTypeIn(normalizeText(text), CHART_TYPE_KEYWORDS)

findChartType(text) == ChartTypeIn(normalizeText(text), sortedKeywords)

\* the loop of findFieldMatches over schema.columns, from a partial result
RECURSIVE MatchColumns(_, _, _)
MatchColumns(columns, normalized, result) ==
    IF columns = << >> THEN result
    ELSE LET col == Head(columns)
             next ==
                 IF Includes(normalized, toLowerCase(col.name))
                 THEN IF col.type = "datetime"
                      THEN [result EXCEPT !.xField = col.name]
                      ELSE IF col.type = "number" /\ result.yField = Undefined
                      THEN [result EXCEPT !.yField = col.name]
                      ELSE IF col.type = "string" /\ result.colorField = Undefined
                      THEN [result EXCEPT !.colorField = col.name]
                      ELSE result
                 ELSE result
         IN  MatchColumns(Tail(columns), normalized, next)

\* categoricalColumns.find(c => c.name !== xField)?.name
FirstOtherName(columns, xField) ==
    LET Other(c) == c.name # xField
        others == SelectSeq(columns, Other)
    IN  IF others = << >> THEN Undefined ELSE others[1].name

\* the columns findFieldMatches calls categorical: every string column
parserCategoricalColumns(sch) == SelectSeq(sch.columns, IsStringColumn)

\* findFieldMatches without its default bindings
findFieldMatches_noDefaults(text, sch) ==
    MatchColumns(sch.columns, normalizeText(text),
                 [xField |-> Undefined, yField |-> Undefined, colorField |-> Undefined])

findFieldMatches(text, sch) ==
    LET normalized == normalizeText(text)
        numericColumns == SelectSeq(sch.columns, IsNumberColumn)
        categoricalColumns == parserCategoricalColumns(sch)
        dateColumns == SelectSeq(sch.columns, IsDatetimeColumn)
        named == MatchColumns(sch.columns, normalized,
                              [xField |-> Undefined, yField |-> Undefined,
                               colorField |-> Undefined])
        withX == IF named.xField = Undefined /\ Len(dateColumns) > 0
                 THEN [named EXCEPT !.xField = dateColumns[1].name]
                 ELSE IF named.xField = Undefined /\ Len(categoricalColumns) > 0
                 THEN [named EXCEPT !.xField = categoricalColumns[1].name]
                 ELSE named
        withY == IF withX.yField = Undefined /\ Len(numericColumns) > 0
                 THEN [withX EXCEPT !.yField = numericColumns[1].name]
                 ELSE withX
    IN  IF withY.colorField = Undefined /\ Len(categoricalColumns) > 1
        THEN [withY EXCEPT !.colorField = FirstOtherName(categoricalColumns, withY.xField)]
        ELSE withY

findAggregation(text) ==
    LET hit == FirstIncluded(normalizeText(text), AGGREGATION_KEYWORDS)
    IN  IF hit # 0 THEN AGGREGATION_KEYWORDS[hit][2] ELSE "sum"

ChartIntent(chartType, xField, yField, colorField, sizeField, aggregation) ==
    [chartType |-> chartType, xField |-> xField, yField |-> yField,
     colorField |-> colorField, sizeField |-> sizeField, aggregation |-> aggregation]

\* no intent yet
NoIntent == ChartIntent(Undefined, Undefined, Undefined, Undefined, Undefined, Undefined)

\* parsePrompt without the default chart type
parsePrompt_noDefault(text, sch) ==
    LET chartType == findChartType(text)
        fieldMatches == findFieldMatches(text, sch)
        aggregation == findAggregation(text)
    IN  ChartIntent(chartType, fieldMatches.xField, fieldMatches.yField,
                    fieldMatches.colorField, Undefined, aggregation)

parsePrompt(text, sch) ==
    LET chartType == findChartType(text)
        fieldMatches == findFieldMatches(text, sch)
        aggregation == findAggregation(text)
    IN  ChartIntent(Or(chartType, "bar"), fieldMatches.xField, fieldMatches.yField,
                    fieldMatches.colorField, Undefined, aggregation)

-----------------------------------------------------------------------------
(* vegaSpecBuilder: intent-driven compilation *)

buildSpecFromIntent(data, sch, in) ==
    LET chartType == in.chartType
        xField == in.xField
        yField == in.yField
        colorField == in.colorField
        sizeField == in.sizeField
    IN  IF chartType = Undefined \/ xField = Undefined THEN NoSpec
        ELSE CASE chartType = "bar" ->
                    buildBarSpec(data, xField, Or(yField, xField), colorField, FALSE, FALSE)
               [] chartType = "bar-horizontal" ->
                    buildBarSpec(data, xField, Or(yField, xField), colorField, TRUE, FALSE)
               [] chartType = "bar-stacked" ->
                    buildBarSpec(data, xField, Or(yField, xField), colorField, FALSE, TRUE)
               [] chartType = "line" ->
                    buildLineSpec(data, xField, Or(yField, xField), colorField)
               [] chartType = "area" ->
                    buildAreaSpec(data, xField, Or(yField, xField), colorField, FALSE)
               [] chartType = "area-stacked" ->
                    buildAreaSpec(data, xField, Or(yField, xField), colorField, TRUE)
               [] chartType = "scatter" ->
                    buildScatterSpec(data, xField, Or(yField, xField), colorField, sizeField)
               [] chartType = "bubble" ->
                    buildScatterSpec(data, xField, Or(yField, xField), colorField,
                                     Or(sizeField, yField))
               [] chartType = "histogram" -> buildHistogramSpec(data, xField)
               [] chartType = "boxplot" -> buildBoxplotSpec(data, xField, Or(yField, xField))
               [] chartType = "heatmap" ->
                    buildHeatmapSpec(data, xField, Or(yField, xField),
                                     Or(colorField, Or(yField, xField)))
               [] chartType = "pie" -> buildPieSpec(data, xField, Or(yField, xField), FALSE)
               [] chartType = "donut" -> buildPieSpec(data, xField, Or(yField, xField), TRUE)
               [] chartType = "combo" ->
                    buildComboSpec(data, xField, Or(yField, xField),
                                   Or(colorField, Or(yField, xField)))
               [] OTHER -> buildBarSpec(data, xField, Or(yField, xField), colorField, FALSE, FALSE)

-----------------------------------------------------------------------------
(* insightGenerator *)

\* schema.columns.find(c => c.type === 'string' && c.name === xField): the
\* column whose presence makes generateInsights group by category; << >> when
\* there is none
insightCategoricalColumn(sch, xField) ==
    LET IsIt(c) == c.type = "string" /\ c.name = xField
    IN  SelectSeq(sch.columns, IsIt)

-----------------------------------------------------------------------------
(* Inputs *)

SeqsUpTo(S, n) == UNION {[1..k -> S] : k \in 0..n}

\* the longest column of raw values
MaxValues == 5

\* the most rows of a dataset
MaxRows == 2

\* the most columns of a schema given to recommendCharts
MaxCols == 4

\* the most columns of a schema given to parsePrompt
MaxParseCols == 3

\* the most words of a prompt given to findChartType
MaxDetectWords == 3

\* one raw value of each behaviour under the inference rules: empty, a boolean
\* token that is no number, a boolean token that is a number, a date that
\* parseFloat reads as a number, a date that it does not, and plain text
CoreValues ==
    {Null, Str("true"), Str("1"), Str("2024-01-01"), Str("Jan 5, 2024"), Str("Alice")}

\* columns of the other value shapes: native values, separators, the empty
\* string, undefined
ExampleColumns ==
    { <<Str("1"), Str("2"), Str("3")>>,
      <<Str("true"), Str("false"), Str("1")>>,
      <<Str("2024-01-01"), Str("2024-02-01")>>,
      <<Str("Alice"), Str("Bob")>>,
      <<Str("0"), Str("1")>>,
      <<Num("3"), Str("1,000"), Str(" -2.5")>>,
      <<Bool("true"), Bool("false")>>,
      <<NaN, Num("3")>>,
      <<Undef, Str(""), Null>>,
      <<Str("01/02/2024"), Str("01.02.2024"), Str("2024/01/02"), Str("n/a")>> }

RowKeys == {"Region", "2020"}

RowValues == {Null, Str("2"), Str("x")}

\* the objects over RowKeys: their entries in every insertion order
Rows ==
    {r \in SeqsUpTo(RowKeys \X RowValues, Cardinality(RowKeys)) :
        \A i, j \in DOMAIN r : i # j => r[i][1] # r[j][1]}

EmptySchema == [columns |-> << >>, rowCount |-> 0]

\* useState<Dataset | null>(null): no dataset
NoDataset ==
    [data |-> << >>, schema |-> EmptySchema, fileName |-> Undefined, fileType |-> Undefined]

\* useState<string | null>(null): no error; a message m is <<m>>
NoError == << >>

\* no toast shown yet
NoToast == [title |-> Undefined, description |-> Undefined, variant |-> Undefined]

\* the column names of an input schema, by position
ColumnNames == <<"Sales", "Region", "Month", "Profit", "Units", "Notes">>

\* the type and distinct-value count of a column of an input schema: a string
\* column on either side of the categorical limit
ColumnKinds ==
    { <<"number", 7>>, <<"string", CategoricalLimit - 1>>, <<"string", CategoricalLimit>>,
      <<"datetime", 7>>, <<"boolean", 2>>, <<"unknown", 0>> }

\* the row count of an input schema
SchemaRows == 60

SchemaOf(kinds) ==
    [columns |-> [i \in DOMAIN kinds |->
                     [name |-> ColumnNames[i], type |-> kinds[i][1],
                      uniqueCount |-> kinds[i][2], nullCount |-> 0]],
     rowCount |-> SchemaRows]

Schemas(n) == {SchemaOf(kinds) : kinds \in SeqsUpTo(ColumnKinds, n)}

\* the dataset of the recommendation scenario: twelve rows of Month, Region
\* (3 distinct values) and Sales
MonthlySalesSchema ==
    [columns |-> << [name |-> "Month", type |-> "datetime", uniqueCount |-> 12, nullCount |-> 0],
                    [name |-> "Region", type |-> "string", uniqueCount |-> 3, nullCount |-> 0],
                    [name |-> "Sales", type |-> "number", uniqueCount |-> 12, nullCount |-> 0] >>,
     rowCount |-> 12]

DetectWords ==
    {"Stacked", "horizontal", "bar,", "area", "chart.", "pie", "distribution",
     "sales", "last"}

RECURSIVE Join(_)
Join(words) ==
    IF words = << >> THEN ""
    ELSE IF Len(words) = 1 THEN words[1]
    ELSE words[1] \o " " \o Join(Tail(words))

DetectPrompts == {Join(w) : w \in SeqsUpTo(DetectWords, MaxDetectWords)}

\* the example prompts offered to the user
EXAMPLE_PROMPTS ==
    [turkish |-> <<
        "Kategorilere g%re sat|&lar| bar grafik olarak g%ster",
        "Son 6 aydaki sat|& trendini $iz",
        "~r#n kategorilerinin da@|l|m|n| pasta grafik ile g%ster",
        "Fiyat ve miktar aras|ndaki ili&kiyi sa$|l|m grafi@i ile g%ster",
        "Ayl|k gelirleri y|@|lm|& alan grafik ile g%ster" >>,
     english |-> <<
        "Show sales by category as a bar chart",
        "Display the trend of revenue over time",
        "Create a pie chart showing the distribution by region",
        "Scatter plot of price vs quantity",
        "Compare monthly sales with a line chart" >>]

ExamplePrompts ==
    {EXAMPLE_PROMPTS.turkish[i] : i \in DOMAIN EXAMPLE_PROMPTS.turkish}
        \cup {EXAMPLE_PROMPTS.english[i] : i \in DOMAIN EXAMPLE_PROMPTS.english}

ParsePrompts ==
    { "", "   ", "Show me the data", "region", "Profit, please!",
      "Sales and Region", "Plot units per region", "Month",
      "Show sales by region as a bar chart", "average profit over time",
      "create a scatter chart", "create a heatmap chart", "create a combo chart",
      "Stacked bar of sales", "histogram", "pie chart of the distribution",
      "Show sales by category as a bar chart",
      "Month and sales by region as a bar chart",
      "Sales by region as a stacked bar chart",
      "average sales by region pie chart" }

\* the schema of the prompt scenario: Sales and Category
SalesByCategorySchema ==
    [columns |-> << [name |-> "Sales", type |-> "number", uniqueCount |-> 7, nullCount |-> 0],
                    [name |-> "Category", type |-> "string", uniqueCount |-> 5, nullCount |-> 0] >>,
     rowCount |-> SchemaRows]

-----------------------------------------------------------------------------
(* Specifications *)

\* the variables a specification does not use
IdleInfer == values = << >> /\ columnType = "pending"

IdleAnalyze == rows = << >>

IdleSchema == schema = EmptySchema

IdleDetect == detected = Undefined

IdleRecommend == recommendations = << >>

IdleParse == intent = NoIntent /\ compiled = NoSpec

IdleSession ==
    /\ dataset = NoDataset
    /\ isLoading = FALSE
    /\ error = NoError
    /\ loads = << >>
    /\ lastToast = NoToast

IdleInsights == xHint = Undefined /\ yHint = Undefined /\ insights = << >>

IdleChart == selectedChart = NoChart /\ customSpec = NoSpec /\ currentIntent = NoIntent

IdlePage ==
    /\ history = << >>
    /\ pending = << >>
    /\ now = 0
    /\ isGenerating = FALSE
    /\ lastPrompt = ""
    /\ calls = 0

(* SpecInfer: inferColumnType on one column *)

InitInfer ==
    /\ pc = "start"
    /\ values \in SeqsUpTo(CoreValues, MaxValues) \cup ExampleColumns
    /\ lenientDates \in BOOLEAN
    /\ columnType = "pending"
    /\ prompt = ""
    /\ IdleAnalyze /\ IdleSchema /\ IdleDetect /\ IdleRecommend /\ IdleParse
    /\ IdleSession /\ IdleInsights /\ IdleChart /\ IdlePage

InferColumn ==
    /\ pc = "start"
    /\ columnType' = inferColumnType(values, lenientDates)
    /\ pc' = "inferred"
    /\ UNCHANGED <<values, lenientDates, rows, schema, prompt, detected,
                   recommendations, intent, compiled,
                   sessionVars, insightVars, chartVars, pageVars>>

NextInfer == InferColumn

SpecInfer == InitInfer /\ [][NextInfer]_vars

(* SpecAnalyze: analyzeDataset on a row sequence *)

InitAnalyze ==
    /\ pc = "start"
    /\ rows \in SeqsUpTo(Rows, MaxRows)
    /\ lenientDates \in BOOLEAN
    /\ schema = EmptySchema
    /\ prompt = ""
    /\ IdleInfer /\ IdleDetect /\ IdleRecommend /\ IdleParse
    /\ IdleSession /\ IdleInsights /\ IdleChart /\ IdlePage

AnalyzeDataset ==
    /\ pc = "start"
    /\ schema' = analyzeDataset(rows, lenientDates)
    /\ pc' = "analyzed"
    /\ UNCHANGED <<values, lenientDates, columnType, rows, prompt, detected,
                   recommendations, intent, compiled,
                   sessionVars, insightVars, chartVars, pageVars>>

NextAnalyze == AnalyzeDataset

SpecAnalyze == InitAnalyze /\ [][NextAnalyze]_vars

(* SpecRecommend: recommendCharts on a schema *)

InitRecommend ==
    /\ pc = "start"
    /\ schema \in Schemas(MaxCols) \cup {MonthlySalesSchema}
    /\ lenientDates = FALSE
    /\ prompt = ""
    /\ recommendations = << >>
    /\ IdleInfer /\ IdleAnalyze /\ IdleDetect /\ IdleParse
    /\ IdleSession /\ IdleInsights /\ IdleChart /\ IdlePage

RecommendCharts ==
    /\ pc = "start"
    /\ recommendations' = recommendCharts(rows, schema)
    /\ pc' = "recommended"
    /\ UNCHANGED <<values, lenientDates, columnType, rows, schema, prompt, detected,
                   intent, compiled,
                   sessionVars, insightVars, chartVars, pageVars>>

NextRecommend == RecommendCharts

SpecRecommend == InitRecommend /\ [][NextRecommend]_vars

(* SpecDetect: findChartType on a prompt *)

InitDetect ==
    /\ pc = "start"
    /\ prompt \in DetectPrompts \cup ExamplePrompts
    /\ lenientDates = FALSE
    /\ detected = Undefined
    /\ IdleInfer /\ IdleAnalyze /\ IdleSchema /\ IdleRecommend /\ IdleParse
    /\ IdleSession /\ IdleInsights /\ IdleChart /\ IdlePage

FindChartType ==
    /\ pc = "start"
    /\ detected' = findChartType(prompt)
    /\ pc' = "detected"
    /\ UNCHANGED <<values, lenientDates, columnType, rows, schema, prompt,
                   recommendations, intent, compiled,
                   sessionVars, insightVars, chartVars, pageVars>>

NextDetect == FindChartType

SpecDetect == InitDetect /\ [][NextDetect]_vars

(* SpecParse: parsePrompt on a prompt and a schema, then buildSpecFromIntent *)

InitParse ==
    /\ pc = "start"
    /\ prompt \in ParsePrompts
    /\ schema \in Schemas(MaxParseCols) \cup {SalesByCategorySchema}
    /\ lenientDates = FALSE
    /\ intent = NoIntent
    /\ compiled = NoSpec
    /\ IdleInfer /\ IdleAnalyze /\ IdleDetect /\ IdleRecommend
    /\ IdleSession /\ IdleInsights /\ IdleChart /\ IdlePage

ParsePrompt ==
    /\ pc = "start"
    /\ intent' = parsePrompt(prompt, schema)
    /\ pc' = "parsed"
    /\ UNCHANGED <<values, lenientDates, columnType, rows, schema, prompt, detected,
                   recommendations, compiled,
                   sessionVars, insightVars, chartVars, pageVars>>

BuildSpecFromIntent ==
    /\ pc = "parsed"
    /\ compiled' = buildSpecFromIntent(rows, schema, intent)
    /\ pc' = "compiled"
    /\ UNCHANGED <<values, lenientDates, columnType, rows, schema, prompt, detected,
                   recommendations, intent,
                   sessionVars, insightVars, chartVars, pageVars>>

NextParse == ParsePrompt \/ BuildSpecFromIntent

SpecParse == InitParse /\ [][NextParse]_vars

-----------------------------------------------------------------------------
(* Claims about the Chart Catalog & Scorer, under SpecRecommend *)

\* the hard gate as the catalog states it, on the column counts of a schema
PassesGate(chartInfo, sch) ==
    LET cols == getColumnsByType(sch)
    IN  /\ Len(cols.numeric) >= chartInfo.requirements.minNumeric
        /\ Len(cols.categorical) >= chartInfo.requirements.minCategorical
        /\ (chartInfo.requirements.needsDatetime => Len(cols.datetime) > 0)

ScoreFor(chartInfo, sch) ==
    LET cols == getColumnsByType(sch)
    IN  calculateSuitability(chartInfo, Len(cols.numeric), Len(cols.categorical),
                             Len(cols.datetime) > 0)

Recommends(type) == \E r \in DOMAIN recommendations : recommendations[r].type = type

\* C1: recommendCharts returns an archetype of the 14-entry catalog if and only
\* if it passes the hard gate; an archetype below a stated minimum scores
\* exactly 0 and is absent; no gate-passing archetype (combo included) is
\* dropped for want of a spec; and no archetype appears twice.
C1_GateDecidesMembership ==
    pc = "recommended" =>
        /\ Len(CHART_TYPES) = 14
        /\ \A i \in DOMAIN CHART_TYPES :
              /\ PassesGate(CHART_TYPES[i], schema) <=> Recommends(CHART_TYPES[i].type)
              /\ ~ PassesGate(CHART_TYPES[i], schema) =>
                    ScoreFor(CHART_TYPES[i], schema) = 0
        /\ \A r \in DOMAIN recommendations :
              /\ \E i \in DOMAIN CHART_TYPES : CHART_TYPES[i].type = recommendations[r].type
              /\ recommendations[r].vegaLiteSpec # NoSpec
        /\ \A q, r \in DOMAIN recommendations :
              recommendations[q].type = recommendations[r].type => q = r

\* a schema for which combo and bubble pass the gate and heatmap, which needs a
\* second categorical column, does not
C1_Witness ==
    /\ pc = "recommended"
    /\ Recommends("combo")
    /\ Recommends("bubble")
    /\ ~ Recommends("heatmap")
    /\ ~ Recommends("line")

\* C2: for every archetype and every combination of numeric count, categorical
\* count and datetime presence, calculateSuitability is an integer between 0
\* and 100, and every recommendation emitted carries a score in 1..100.
C2_ScoreBounds ==
    /\ \A i \in DOMAIN CHART_TYPES :
          \A n \in 0..(MaxCols + 1), c \in 0..(MaxCols + 1), d \in BOOLEAN :
              calculateSuitability(CHART_TYPES[i], n, c, d) \in 0..100
    /\ pc = "recommended" =>
          \A r \in DOMAIN recommendations :
              recommendations[r].suitabilityScore \in 1..100

\* the highest score there is: a line chart on one numeric and one datetime
\* column
C2_Witness ==
    /\ pc = "recommended"
    /\ \E r \in DOMAIN recommendations : recommendations[r].suitabilityScore = 100
    /\ \E r \in DOMAIN recommendations : recommendations[r].suitabilityScore < 100

\* the place of an archetype in the catalog
CatalogIndex(type) == CHOOSE i \in DOMAIN CHART_TYPES : CHART_TYPES[i].type = type

\* C3: the list recommendCharts returns is sorted by descending score, and
\* recommendations of equal score keep the order of their archetypes in
\* CHART_TYPES.
C3_SortedStable ==
    pc = "recommended" =>
        \A q, r \in DOMAIN recommendations :
            q < r =>
                /\ recommendations[q].suitabilityScore >= recommendations[r].suitabilityScore
                /\ recommendations[q].suitabilityScore = recommendations[r].suitabilityScore
                      => CatalogIndex(recommendations[q].type)
                            < CatalogIndex(recommendations[r].type)

\* a result in which the sort has moved an archetype ahead of one declared
\* before it, and in which two archetypes tie
C3_Witness ==
    /\ pc = "recommended"
    /\ \E q, r \in DOMAIN recommendations :
          /\ q < r
          /\ CatalogIndex(recommendations[q].type) > CatalogIndex(recommendations[r].type)
    /\ \E q, r \in DOMAIN recommendations :
          /\ q < r
          /\ recommendations[q].suitabilityScore = recommendations[r].suitabilityScore

-----------------------------------------------------------------------------
(* Claims about the Schema Inferencer, under SpecInfer and SpecAnalyze *)

nonNullValues == SelectSeq(values, IsNonNull)

AllBoolean == Len(SelectSeq(nonNullValues, IsBooleanValue)) = Len(nonNullValues)

AllNumeric == Len(SelectSeq(nonNullValues, IsNumericValue)) = Len(nonNullValues)

\* the number of date-like values among the non-null ones
DateCount ==
    LET IsDate(v) == IsDateValue(v, lenientDates)
    IN  Len(SelectSeq(nonNullValues, IsDate))

\* C5 as claimed: a column that is neither all boolean tokens nor all numeric
\* is datetime whenever at least 80% of its non-null values are date-like
\* (exactly 80% included), and string otherwise.
C5_AtLeast80 ==
    (pc = "inferred" /\ Len(nonNullValues) > 0 /\ ~ AllBoolean /\ ~ AllNumeric) =>
        columnType = (IF 5 * DateCount >= 4 * Len(nonNullValues)
                      THEN "datetime" ELSE "string")

\* C5 as amended: such a column is datetime whenever more than 80% of its
\* non-null values are date-like, and string otherwise; at exactly 80% it is
\* string.
C5_MoreThan80 ==
    (pc = "inferred" /\ Len(nonNullValues) > 0 /\ ~ AllBoolean /\ ~ AllNumeric) =>
        columnType = (IF 5 * DateCount > 4 * Len(nonNullValues)
                      THEN "datetime" ELSE "string")

\* a column of five non-null values, four of them date-like, inferred
C5_Witness ==
    /\ pc = "inferred"
    /\ Len(nonNullValues) = 5
    /\ DateCount = 4
    /\ ~ AllBoolean /\ ~ AllNumeric
    /\ columnType = "string"

\* C6: type inference is total and first-match-wins: no non-null value gives
\* unknown; else boolean iff every non-null value is a boolean literal or
\* token; else number iff every non-null value is numeric; and ["1","2","3"]
\* is number, ["true","false","1"] boolean, ["2024-01-01","2024-02-01"]
\* datetime, ["Alice","Bob"] string.
C6_FirstMatchWins ==
    pc = "inferred" =>
        /\ columnType \in ColumnTypes
        /\ (columnType = "unknown") <=> (Len(nonNullValues) = 0)
        /\ Len(nonNullValues) > 0 =>
              /\ (columnType = "boolean") <=> AllBoolean
              /\ ~ AllBoolean => ((columnType = "number") <=> AllNumeric)
        /\ values = <<Str("0"), Str("1")>> => columnType = "boolean"
        /\ values = <<Str("1"), Str("2"), Str("3")>> => columnType = "number"
        /\ values = <<Str("true"), Str("false"), Str("1")>> => columnType = "boolean"
        /\ values = <<Str("2024-01-01"), Str("2024-02-01")>> => columnType = "datetime"
        /\ values = <<Str("Alice"), Str("Bob")>> => columnType = "string"

-----------------------------------------------------------------------------

\* the values of a column over all rows, a row without the key giving undefined
ColumnValues(name) == [r \in DOMAIN rows |-> Get(rows[r], name)]

\* C7: for a non-empty row sequence analyzeDataset yields exactly one
\* ColumnSchema per key of the first row, in the first row's key order, with
\* pairwise distinct names, each derived from the values of all rows (a row
\* lacking the key counting as null), and rowCount is the number of rows; for
\* an empty row sequence it yields no columns and rowCount 0.
C7_OneColumnPerFirstRowKey ==
    pc = "analyzed" =>
        /\ schema.rowCount = Len(rows)
        /\ rows = << >> => schema.columns = << >>
        /\ rows # << >> =>
              /\ [c \in DOMAIN schema.columns |-> schema.columns[c].name]
                    = ObjectKeys(rows[1])
              /\ Range(ObjectKeys(rows[1])) = Range(OwnKeys(rows[1]))
              /\ \A c, d \in DOMAIN schema.columns :
                    schema.columns[c].name = schema.columns[d].name => c = d
              /\ \A c \in DOMAIN schema.columns :
                    LET vals == ColumnValues(schema.columns[c].name)
                        IsNull(v) == ~ IsNonNull(v)
                    IN  /\ schema.columns[c].type = inferColumnType(vals, lenientDates)
                        /\ schema.columns[c].nullCount = Len(SelectSeq(vals, IsNull))
                        /\ schema.columns[c].uniqueCount
                              = Cardinality(Range(vals) \ {Null, Undef, Str("")})

\* two rows of which the second lacks a key of the first and holds a value
\* that changes the column's type
C7_Witness ==
    /\ pc = "analyzed"
    /\ Len(rows) = 2
    /\ Len(schema.columns) = 2
    /\ \E c \in DOMAIN schema.columns :
          /\ ~ HasKey(rows[2], schema.columns[c].name)
          /\ schema.columns[c].nullCount = 1
    /\ \E c \in DOMAIN schema.columns :
          /\ schema.columns[c].type = "string"
          /\ inferColumnType(<<Get(rows[1], schema.columns[c].name)>>, lenientDates)
                = "number"

-----------------------------------------------------------------------------
(* Claims about the Intent Parser and the Spec Compiler, under SpecDetect and
   SpecParse *)

\* the chart keywords that occur in a normalized text, by place in the table
Occurring(normalized) ==
    {i \in DOMAIN CHART_TYPE_KEYWORDS : Includes(normalized, CHART_TYPE_KEYWORDS[i][1])}

OccurringKeywords(normalized) ==
    {CHART_TYPE_KEYWORDS[i][1] : i \in Occurring(normalized)}

\* keyword i is the longest that occurs, the earlier of two of equal length
IsLongestOccurring(i, normalized) ==
    /\ i \in Occurring(normalized)
    /\ \A j \in Occurring(normalized) \ {i} :
          \/ Len(CHART_TYPE_KEYWORDS[j][1]) < Len(CHART_TYPE_KEYWORDS[i][1])
          \/ (Len(CHART_TYPE_KEYWORDS[j][1]) = Len(CHART_TYPE_KEYWORDS[i][1]) /\ i < j)

\* C8: chart-type detection returns the chart type of the longest keyword of
\* the table that occurs in the normalized text, equal lengths resolved by
\* table order, so a phrase is never shadowed by a shorter keyword in it:
\* "stacked bar" with "bar" gives bar-stacked, "horizontal bar" gives
\* bar-horizontal, "stacked area" gives area-stacked.
C8_LongestKeywordWins ==
    pc = "detected" =>
        LET normalized == normalizeText(prompt)
        IN  /\ \A i \in DOMAIN CHART_TYPE_KEYWORDS :
                  IsLongestOccurring(i, normalized) =>
                      detected = CHART_TYPE_KEYWORDS[i][2][1]
            /\ OccurringKeywords(normalized) = {"stacked bar", "bar"} =>
                  detected = "bar-stacked"
            /\ OccurringKeywords(normalized) = {"horizontal bar", "bar"} =>
                  detected = "bar-horizontal"
            /\ OccurringKeywords(normalized) = {"stacked area", "area"} =>
                  detected = "area-stacked"

\* a text in which "stacked bar" occurs beside the shorter "bar chart" and
\* "bar", both declared before it
C8_Witness ==
    /\ pc = "detected"
    /\ OccurringKeywords(normalizeText(prompt)) = {"stacked bar", "bar chart", "bar"}
    /\ prompt # normalizeText(prompt)
    /\ detected = "bar-stacked"

\* no keyword of the chart, time or aggregation tables occurs in the text
KeywordFree(text) ==
    LET normalized == normalizeText(text)
    IN  /\ Occurring(normalized) = {}
        /\ \A i \in DOMAIN TIME_KEYWORDS : ~ Includes(normalized, TIME_KEYWORDS[i])
        /\ \A i \in DOMAIN AGGREGATION_KEYWORDS :
              ~ Includes(normalized, AGGREGATION_KEYWORDS[i][1])

numericColumnsOf(sch) == SelectSeq(sch.columns, IsNumberColumn)

\* the text names the column: its lower-cased name occurs in the normalized text
Names(text, col) == Includes(normalizeText(text), toLowerCase(col.name))

ChartTypeNames == {CHART_TYPES[i].type : i \in DOMAIN CHART_TYPES}

\* C9 as claimed: for an empty or keyword-free string against any non-empty
\* schema parsePrompt returns chartType "bar" with yField bound to the first
\* numeric column of the schema.
C9_KeywordFreeDefault ==
    (pc = "parsed" /\ KeywordFree(prompt) /\ schema.columns # << >>) =>
        /\ intent.chartType = "bar"
        /\ numericColumnsOf(schema) # << >> =>
              intent.yField = numericColumnsOf(schema)[1].name

\* C9 as amended: parsePrompt always returns an intent with a chart type, and
\* for an empty string, or a keyword-free string that names no numeric column,
\* against any non-empty schema the chart type is "bar" and yField is the first
\* numeric column of the schema.
C9_KeywordFreeUnnamedDefault ==
    pc = "parsed" =>
        /\ intent.chartType \in ChartTypeNames
        /\ (/\ KeywordFree(prompt)
            /\ schema.columns # << >>
            /\ \A c \in Range(numericColumnsOf(schema)) : ~ Names(prompt, c)) =>
              /\ intent.chartType = "bar"
              /\ numericColumnsOf(schema) # << >> =>
                    intent.yField = numericColumnsOf(schema)[1].name

\* a keyword-free text that names a string column, parsed against a schema
\* whose only numeric column is not its first column
C9_Witness ==
    /\ pc = "parsed"
    /\ KeywordFree(prompt)
    /\ normalizeText(prompt) # ""
    /\ \E c \in Range(schema.columns) : Names(prompt, c)
    /\ \A c \in Range(numericColumnsOf(schema)) : ~ Names(prompt, c)
    /\ Len(numericColumnsOf(schema)) = 1
    /\ schema.columns[1].type # "number"
    /\ intent.chartType = "bar"
    /\ intent.yField = numericColumnsOf(schema)[1].name

\* C10: buildSpecFromIntent returns no spec exactly when the intent's chart
\* type or x field is unset; so a prompt with no recognizable chart keyword,
\* parsed against a schema with no categorical and no datetime column, yields
\* an intent whose compiled spec is absent.
C10_NoSpecExactlyWithoutX ==
    pc = "compiled" =>
        /\ (compiled = NoSpec) <=>
              (intent.chartType = Undefined \/ intent.xField = Undefined)
        /\ (/\ Occurring(normalizeText(prompt)) = {}
            /\ getColumnsByType(schema).categorical = << >>
            /\ getColumnsByType(schema).datetime = << >>) =>
              compiled = NoSpec

\* the columns each stage treats as categorical
ScorerCategorical == Range(getColumnsByType(schema).categorical)

ParserCategorical == Range(parserCategoricalColumns(schema))

InsightCategorical ==
    {c \in Range(schema.columns) : insightCategoricalColumn(schema, c.name) # << >>}

\* C4: the columns the Scorer counts as categorical (string-typed, fewer than
\* 50 distinct values) are the columns the Intent Parser uses for its x and
\* color bindings and the Insight Generator for the top-category insight; a
\* string column with 50 or more distinct values is never bound to x or color
\* by parsePrompt and never triggers a top-category insight.
C4_StagesAgreeOnCategorical ==
    pc = "parsed" =>
        /\ ParserCategorical = ScorerCategorical
        /\ InsightCategorical = ScorerCategorical
        /\ \A c \in Range(schema.columns) :
              (c.type = "string" /\ c.uniqueCount >= CategoricalLimit) =>
                  /\ intent.xField # c.name
                  /\ intent.colorField # c.name
                  /\ insightCategoricalColumn(schema, intent.xField) # <<c>>

-----------------------------------------------------------------------------
(* useDataset: loadFile over parseFile *)

\* the most loadFile calls of a session
MaxLoads == 2

LoadIds == 1..MaxLoads

\* fileName.split('.').pop(): the text after the last dot, the whole name
\* when it has none
RECURSIVE LastSegment(_)
LastSegment(name) ==
    IF \A i \in 1..Len(name) : Char(name, i) # "." THEN name
    ELSE LastSegment(SubSeq(name, 2, Len(name)))

Extension(fileName) == toLowerCase(LastSegment(fileName))

\* the switch of parseFile: the fileType of an extension, Undefined for the
\* default branch
FileTypeOf(extension) ==
    CASE extension = "csv" -> "csv"
      [] extension \in {"xlsx", "xls"} -> "xlsx"
      [] extension = "json" -> "json"
      [] OTHER -> Undefined

\* What the extractor of a file's format (parseCSV, parseExcel, parseJSON)
\* settles with: the rows, a thrown Error with a message, or a rejection
\* with a value that is no Error (reader.onerror, Papa's error callback).
Resolves(data) == [kind |-> "rows", data |-> data, message |-> Undefined]

Throws(message) == [kind |-> "error", data |-> << >>, message |-> message]

RejectsWithEvent == [kind |-> "event", data |-> << >>, message |-> Undefined]

File(name, extraction) == [name |-> name, extraction |-> extraction]

\* a settled promise
Fulfilled(value) == [ok |-> TRUE, value |-> value, reason |-> NoError]

Rejected(message) == [ok |-> FALSE, value |-> NoDataset, reason |-> <<message>>]

\* err instanceof Error ? err.message : 'Failed to parse file'
ErrorMessage(extraction) ==
    IF extraction.kind = "error" THEN extraction.message ELSE "Failed to parse file"

parseFile(file, lenient) ==
    LET fileType == FileTypeOf(Extension(file.name))
    IN  IF fileType = Undefined
        THEN Rejected("Unsupported file type: " \o Extension(file.name))
        ELSE IF file.extraction.kind # "rows"
        THEN Rejected(ErrorMessage(file.extraction))
        ELSE Fulfilled([data |-> file.extraction.data,
                        schema |-> analyzeDataset(file.extraction.data, lenient),
                        fileName |-> file.name,
                        fileType |-> fileType])

FileNames == {"sales.csv", "Q1.XLSX", "old.xls", "rows.json", "notes.txt", "README"}

FileRows ==
    { << >>,
      << << <<"Region", Str("x")>> >> >>,
      << << <<"2020", Str("2")>>, <<"Region", Null>> >> >> }

Extractions ==
    {Resolves(d) : d \in FileRows} \cup {Throws("Unexpected token < in JSON"), RejectsWithEvent}

Files == {File(n, e) : n \in FileNames, e \in Extractions}

NoFile == File(Undefined, RejectsWithEvent)

NotCalled == [state |-> "idle", file |-> NoFile]

InitLoad ==
    /\ pc = "session"
    /\ dataset = NoDataset
    /\ isLoading = FALSE
    /\ error = NoError
    /\ loads = [i \in LoadIds |-> NotCalled]
    /\ lastToast = NoToast
    /\ lenientDates = FALSE
    /\ prompt = ""
    /\ IdleInfer /\ IdleAnalyze /\ IdleSchema /\ IdleDetect /\ IdleRecommend
    /\ IdleParse /\ IdleInsights /\ IdleChart /\ IdlePage

\* loadFile up to its await: setIsLoading(true), setError(null), parseFile
\* called
LoadFileStart(i, file) ==
    /\ loads[i].state = "idle"
    /\ i > 1 => loads[i - 1].state # "idle"
    /\ isLoading' = TRUE
    /\ error' = NoError
    /\ loads' = [loads EXCEPT ![i] = [state |-> "pending", file |-> file]]
    /\ UNCHANGED <<pc, values, lenientDates, columnType, rows, schema, prompt,
                   detected, recommendations, intent, compiled,
                   dataset, lastToast, insightVars, chartVars, pageVars>>

\* loadFile after its await, with setDataset called on either outcome: the
\* dataset is cleared when parseFile rejects
LoadFileSettle_clearsOnError(i) ==
    /\ loads[i].state = "pending"
    /\ LET result == parseFile(loads[i].file, lenientDates)
       IN  /\ dataset' = result.value
           /\ error' = IF result.ok THEN error ELSE result.reason
           /\ lastToast' = NoToast
    /\ isLoading' = FALSE
    /\ loads' = [loads EXCEPT ![i].state = "done"]
    /\ UNCHANGED <<pc, values, lenientDates, columnType, rows, schema, prompt,
                   detected, recommendations, intent, compiled, insightVars, chartVars, pageVars>>

\* loadFile after its await: the try branch when parseFile fulfils, the catch
\* branch when it rejects, then finally
LoadFileSettle(i) ==
    /\ loads[i].state = "pending"
    /\ LET result == parseFile(loads[i].file, lenientDates)
       IN  IF result.ok
           THEN /\ dataset' = result.value
                /\ error' = error
                /\ lastToast' = [title |-> "Dataset loaded",
                                 description |-> "rows and columns",
                                 variant |-> Undefined]
           ELSE /\ dataset' = dataset
                /\ error' = result.reason
                /\ lastToast' = [title |-> "Error loading file",
                                 description |-> result.reason[1],
                                 variant |-> "destructive"]
    /\ isLoading' = FALSE
    /\ loads' = [loads EXCEPT ![i].state = "done"]
    /\ UNCHANGED <<pc, values, lenientDates, columnType, rows, schema, prompt,
                   detected, recommendations, intent, compiled, insightVars, chartVars, pageVars>>

NextLoad ==
    \/ \E i \in LoadIds, file \in Files : LoadFileStart(i, file)
    \/ \E i \in LoadIds : LoadFileSettle(i)

SpecLoad == InitLoad /\ [][NextLoad]_vars

-----------------------------------------------------------------------------
(* Claims about loadFile, under SpecLoad *)

\* row extraction fails for this file: its extension is unsupported or its
\* content does not parse
ExtractionFails(file) ==
    \/ FileTypeOf(Extension(file.name)) = Undefined
    \/ file.extraction.kind # "rows"

\* C11: when row extraction fails during loadFile, the step that completes
\* the call leaves the active dataset (or the absence of one) as it was, sets
\* error and leaves isLoading false.
C11_FailedLoadKeepsDataset ==
    [][\A i \in LoadIds :
          (/\ loads[i].state = "pending"
           /\ ExtractionFails(loads[i].file)
           /\ loads'[i].state = "done") =>
              /\ dataset' = dataset
              /\ error' # NoError
              /\ isLoading' = FALSE]_vars

\* a failed load has completed while the dataset of an earlier load is active
C11_Witness ==
    /\ \E i \in LoadIds : loads[i].state = "done" /\ ExtractionFails(loads[i].file)
    /\ \A i \in LoadIds : loads[i].state # "pending"
    /\ dataset # NoDataset
    /\ error # NoError
    /\ isLoading = FALSE

-----------------------------------------------------------------------------
(* insightGenerator *)

(* Numbers are integers or NaN; a quotient such as the mean is kept as the  *)
(* pair of its numerator and its positive denominator, and a comparison of  *)
(* quotients is made after cross-multiplying.                               *)

NotANumber == [nan |-> TRUE, n |-> 0]

Number(n) == [nan |-> FALSE, n |-> n]

Abs(n) == IF n < 0 THEN 0 - n ELSE n

\* the integer a decimal numeral denotes
ToInt(s) ==
    IF s # "" /\ Char(s, 1) = "-" THEN 0 - ToNat(SubSeq(s, 2, Len(s))) ELSE ToNat(s)

\* the longest prefix of decimal digits
RECURSIVE DigitPrefix(_)
DigitPrefix(s) ==
    IF s # "" /\ Char(s, 1) \in Digits
    THEN Char(s, 1) \o DigitPrefix(SubSeq(s, 2, Len(s)))
    ELSE ""

\* parseFloat on a text without fraction digits or exponent: the signed
\* digits it starts with after the leading white space, NaN when it starts
\* with none
parseFloat(s) ==
    LET t == TrimStart(s)
        negative == t # "" /\ Char(t, 1) = "-"
        u == IF t # "" /\ Char(t, 1) \in {"+", "-"} THEN SubSeq(t, 2, Len(t)) ELSE t
    IN  IF DigitPrefix(u) = "" THEN NotANumber
        ELSE Number(IF negative THEN 0 - ToNat(DigitPrefix(u)) ELSE ToNat(DigitPrefix(u)))

\* String(val)
String(val) ==
    CASE val.t = "null" -> "null"
      [] val.t = "undefined" -> "undefined"
      [] OTHER -> val.v

\* typeof val === 'number' ? val : parseFloat(String(val))
NumberOf(val) ==
    IF val.t = "number"
    THEN IF val = NaN THEN NotANumber ELSE Number(ToInt(val.v))
    ELSE parseFloat(String(val))

DigitChar(d) == Char("0123456789", d + 1)

RECURSIVE NatToString(_)
NatToString(n) ==
    IF n < 10 THEN DigitChar(n) ELSE NatToString(n \div 10) \o DigitChar(n % 10)

\* Number.prototype.toString of an integer
toString(n) == IF n < 0 THEN "-" \o NatToString(0 - n) ELSE NatToString(n)

Pow10(d) == IF d = 0 THEN 1 ELSE IF d = 1 THEN 10 ELSE 100

\* (p / q).toFixed(d) for d of 1 or 2: the magnitude rounded to d decimals,
\* a half rounded up
toFixed(p, q, d) ==
    LET scaled == (2 * Abs(p) * Pow10(d) + q) \div (2 * q)
        whole == scaled \div Pow10(d)
        frac == scaled % Pow10(d)
        fracText == IF d = 2 /\ frac < 10 THEN "0" \o NatToString(frac)
                    ELSE NatToString(frac)
    IN  (IF p < 0 THEN "-" ELSE "") \o NatToString(whole) \o "." \o fracText

\* formatNumber(p / q)
formatNumber(p, q) ==
    IF Abs(p) >= 1000000 * q THEN toFixed(p, q * 1000000, 1) \o "M"
    ELSE IF Abs(p) >= 1000 * q THEN toFixed(p, q * 1000, 1) \o "K"
    ELSE IF p % q = 0 THEN toString(p \div q)
    ELSE toFixed(p, q, 2)

RECURSIVE Sum(_)
Sum(seq) == IF seq = << >> THEN 0 ELSE Head(seq) + Sum(Tail(seq))

\* n^3 times the variance: the squared deviations from the mean, scaled by n^2
ScaledSquares(seq) ==
    LET n == Len(seq)
        total == Sum(seq)
    IN  Sum([i \in DOMAIN seq |-> (n * seq[i] - total) * (n * seq[i] - total)])

\* calculateStats on a non-empty sequence of integers. The mean and the
\* median are quotients <<numerator, denominator>>; the standard deviation is
\* kept as the variance it is the root of, the quotient
\* <<ScaledSquares, n^3>>.
calculateStats(vals) ==
    LET n == Len(vals)
        sorted == Items(SortByKeyDesc([i \in DOMAIN vals |-> <<0 - vals[i], vals[i]>>]))
        total == Sum(vals)
        squares == ScaledSquares(vals)
        sumX == Sum([i \in DOMAIN vals |-> i - 1])
        sumXY == Sum([i \in DOMAIN vals |-> (i - 1) * vals[i]])
        sumX2 == Sum([i \in DOMAIN vals |-> (i - 1) * (i - 1)])
        slopeNum == n * sumXY - sumX * total
        slopeDen == n * sumX2 - sumX * sumX
        \* slope > 0.1 * mean and slope < -0.1 * mean; the slope is 0 / 0,
        \* which compares false, for a single value
        trend == IF slopeDen = 0 THEN "stable"
                 ELSE IF 10 * n * slopeNum > total * slopeDen THEN "increasing"
                 ELSE IF 10 * n * slopeNum < 0 - total * slopeDen THEN "decreasing"
                 ELSE "stable"
        \* Math.abs(v - mean) > 2 * stdDev
        IsOutlier(v) == n * (n * v - total) * (n * v - total) > 4 * squares
    IN  [min |-> sorted[1],
         max |-> sorted[n],
         mean |-> <<total, n>>,
         median |-> IF n % 2 = 0 THEN <<sorted[n \div 2] + sorted[n \div 2 + 1], 2>>
                    ELSE <<sorted[n \div 2 + 1], 1>>,
         variance |-> <<squares, n * n * n>>,
         trend |-> trend,
         outliers |-> SelectSeq(vals, IsOutlier)]

\* an insight; value is <<v>>, or << >> when the insight has none
Insight(type, title, description, value) ==
    [type |-> type, title |-> title, description |-> description, value |-> value]

\* stats.stdDev / stats.mean > 0.5: false for a negative mean and for 0 / 0,
\* true for a positive deviation over a zero mean
SpreadIsHigh(stats) ==
    LET total == stats.mean[1]
        n == stats.mean[2]
        squares == stats.variance[1]
    IN  IF total > 0 THEN 4 * squares > n * total * total
        ELSE total = 0 /\ squares > 0

\* categoryTotals after the loop over the rows: the <<category, total>>
\* entries in the order their keys were created
RECURSIVE categoryTotals(_, _, _, _)
categoryTotals(data, categoryName, targetName, totals) ==
    IF data = << >> THEN totals
    ELSE LET row == Head(data)
             category == String(Get(row, categoryName))
             value == NumberOf(Get(row, targetName))
             next ==
                 IF value.nan THEN totals
                 ELSE IF \E i \in DOMAIN totals : totals[i][1] = category
                 THEN [i \in DOMAIN totals |->
                          IF totals[i][1] = category
                          THEN <<category, totals[i][2] + value.n>>
                          ELSE totals[i]]
                 ELSE Append(totals, <<category, value.n>>)
         IN  categoryTotals(Tail(data), categoryName, targetName, next)

\* Object.entries(categoryTotals): the entries in Object.keys order
ObjectEntries(totals) ==
    LET keys == ObjectKeys(totals)
    IN  [i \in DOMAIN keys |-> <<keys[i], Get(totals, keys[i])>>]

\* Object.entries(categoryTotals).sort((a, b) => b[1] - a[1])[0], as << >>
\* or <<entry>>
topCategory(totals) ==
    LET entries == ObjectEntries(totals)
        sorted == Items(SortByKeyDesc([i \in DOMAIN entries |-> <<entries[i][2], entries[i]>>]))
    IN  IF sorted = << >> THEN << >> ELSE <<sorted[1]>>

\* the target column of generateInsights, as << >> or <<column>>
targetColumn(sch, yField) ==
    LET numericColumns == SelectSeq(sch.columns, IsNumberColumn)
        Named(c) == c.name = yField
        found == SelectSeq(numericColumns, Named)
    IN  IF yField # Undefined
        THEN (IF found = << >> THEN << >> ELSE <<found[1]>>)
        ELSE (IF numericColumns = << >> THEN << >> ELSE <<numericColumns[1]>>)

\* the numeric values of the target column, NaN left out
targetValues(data, name) ==
    LET numbers == [r \in DOMAIN data |-> NumberOf(Get(data[r], name))]
        IsNumber(v) == ~ v.nan
        kept == SelectSeq(numbers, IsNumber)
    IN  [i \in DOMAIN kept |-> kept[i].n]

generateInsights(data, sch, xField, yField) ==
    IF Len(data) = 0 \/ targetColumn(sch, yField) = << >> THEN << >>
    ELSE
    LET target == targetColumn(sch, yField)[1]
        vals == targetValues(data, target.name)
    IN  IF Len(vals) = 0 THEN << >>
        ELSE
        LET stats == calculateStats(vals)
            maxInsight ==
                Insight("max", "Highest Value",
                        "The maximum " \o target.name \o " is " \o formatNumber(stats.max, 1),
                        <<stats.max>>)
            minInsight ==
                Insight("min", "Lowest Value",
                        "The minimum " \o target.name \o " is " \o formatNumber(stats.min, 1),
                        <<stats.min>>)
            trendInsight ==
                IF xField = Undefined THEN << >>
                ELSE << Insight("trend",
                          CASE stats.trend = "increasing" -> "Upward Trend"
                            [] stats.trend = "decreasing" -> "Downward Trend"
                            [] OTHER -> "Stable Pattern",
                          CASE stats.trend = "increasing" ->
                                  target.name \o " shows an upward trend over " \o xField
                            [] stats.trend = "decreasing" ->
                                  target.name \o " shows a downward trend over " \o xField
                            [] OTHER ->
                                  target.name \o " remains relatively stable over " \o xField,
                          << >>) >>
            outlierInsight ==
                IF Len(stats.outliers) = 0 THEN << >>
                ELSE << Insight("outlier", "Outliers Detected",
                          "Found " \o toString(Len(stats.outliers)) \o " outlier"
                             \o (IF Len(stats.outliers) > 1 THEN "s" ELSE "")
                             \o " that deviate significantly from the average",
                          <<Len(stats.outliers)>>) >>
            distributionInsight ==
                IF SpreadIsHigh(stats)
                THEN Insight("distribution", "High Variability",
                       target.name \o " values vary widely (range: "
                          \o formatNumber(stats.max - stats.min, 1) \o ")",
                       << >>)
                ELSE Insight("distribution", "Low Variability",
                       target.name \o " values are fairly consistent around "
                          \o formatNumber(stats.mean[1], stats.mean[2]),
                       << >>)
            categoricalColumn == insightCategoricalColumn(sch, xField)
            top == IF categoricalColumn = << >> THEN << >>
                   ELSE topCategory(categoryTotals(data, categoricalColumn[1].name,
                                                   target.name, << >>))
            comparisonInsight ==
                IF top = << >> THEN << >>
                ELSE << Insight("comparison", "Top Performer",
                          "\"" \o top[1][1] \o "\" leads with "
                             \o formatNumber(top[1][2], 1) \o " total " \o target.name,
                          <<top[1][2]>>) >>
        IN  <<maxInsight, minInsight>> \o trendInsight \o outlierInsight
               \o <<distributionInsight>> \o comparisonInsight

(* SpecInsights: generateInsights on a dataset, its schema and the two hints *)

\* the most rows of an enumerated dataset
MaxInsightRows == 3

\* category labels: plain text, and text that reads as an integer
InsightLabels == {Str("b"), Str("2")}

\* measure values: a number, a numeral as a CSV extractor delivers it, and
\* text that is no number
InsightMeasures == {Num("5"), Str("10"), Str("x")}

InsightRow(label, measure) == << <<"Region", label>>, <<"Sales", measure>> >>

InsightRows == {InsightRow(l, m) : l \in InsightLabels, m \in InsightMeasures}

\* the rows of one category whose measure takes the given values in turn
MeasureRows(measures) ==
    [i \in DOMAIN measures |-> InsightRow(Str("b"), Num(toString(measures[i])))]

ExampleMeasures == {<<10, 20, 30, 1000>>, <<10, 10, 10, 10, 10, 1000>>, <<30, 20, 10>>}

InsightData ==
    SeqsUpTo(InsightRows, MaxInsightRows) \cup {MeasureRows(m) : m \in ExampleMeasures}

InsightKinds ==
    {<<"number", 7>>, <<"string", CategoricalLimit - 1>>, <<"string", CategoricalLimit>>}

\* schemas over the columns Sales and Region, in that order
InsightSchemas == {SchemaOf(kinds) : kinds \in SeqsUpTo(InsightKinds, 2)}

InitInsights ==
    /\ pc = "start"
    /\ rows \in InsightData
    /\ schema \in InsightSchemas
    /\ xHint \in {Undefined, "Region"}
    /\ yHint \in {Undefined, "Sales", "Region"}
    /\ insights = << >>
    /\ lenientDates = FALSE
    /\ prompt = ""
    /\ IdleInfer /\ IdleDetect /\ IdleRecommend /\ IdleParse /\ IdleSession
    /\ IdleChart /\ IdlePage

GenerateInsights ==
    /\ pc = "start"
    /\ insights' = generateInsights(rows, schema, xHint, yHint)
    /\ pc' = "insights"
    /\ UNCHANGED <<values, lenientDates, columnType, rows, schema, prompt, detected,
                   recommendations, intent, compiled, sessionVars, xHint, yHint,
                   chartVars, pageVars>>

NextInsights == GenerateInsights

SpecInsights == InitInsights /\ [][NextInsights]_vars

-----------------------------------------------------------------------------
(* Claims about the Insight Generator, under SpecInsights *)

\* the column the specification names as the target: the column the y hint
\* names when that is a numeric column, else the first numeric column; << >>
\* when the schema has no numeric column
SpecifiedTarget ==
    LET numeric == numericColumnsOf(schema)
        Hinted(c) == c.name = yHint
    IN  IF yHint # Undefined /\ SelectSeq(numeric, Hinted) # << >>
        THEN <<SelectSeq(numeric, Hinted)[1]>>
        ELSE IF numeric = << >> THEN << >> ELSE <<numeric[1]>>

\* the numeric values the rows hold under a column name
NumericValuesOf(name) ==
    LET idx == {r \in DOMAIN rows : ~ NumberOf(Get(rows[r], name)).nan}
    IN  {NumberOf(Get(rows[r], name)).n : r \in idx}

\* C12: generateInsights analyses the named y field when it is a numeric
\* column and otherwise the first numeric column in schema order; it returns
\* an empty list only for empty data, a schema with no numeric column, or a
\* target with no numeric values.
C12_TargetSelection ==
    pc = "insights" =>
        IF rows = << >> \/ SpecifiedTarget = << >> THEN insights = << >>
        ELSE LET name == SpecifiedTarget[1].name
                 numbers == NumericValuesOf(name)
             IN  IF numbers = {} THEN insights = << >>
                 ELSE /\ insights # << >>
                      /\ insights[1].type = "max"
                      /\ insights[1].value = <<CHOOSE v \in numbers : \A w \in numbers : v >= w>>
                      /\ insights[1].description =
                            "The maximum " \o name \o " is "
                               \o formatNumber(insights[1].value[1], 1)

\* the values generateInsights analysed: those of the column it took as target
AnalysedValues ==
    IF targetColumn(schema, yHint) = << >> THEN << >>
    ELSE targetValues(rows, targetColumn(schema, yHint)[1].name)

InsightsOfType(type) ==
    LET IsOfType(i) == i.type = type
    IN  SelectSeq(insights, IsOfType)

\* v lies more than two population standard deviations from the mean of vals:
\* (v - mean)^2 > 4 * variance, both sides multiplied by n^3
FarFromMean(v, vals) ==
    LET n == Len(vals)
        total == Sum(vals)
    IN  n * (n * v - total) * (n * v - total)
           > 4 * Sum([i \in DOMAIN vals |-> (n * vals[i] - total) * (n * vals[i] - total)])

\* the outlier insight counts exactly the values far from the mean
OutliersAreTheFarValues ==
    (pc = "insights" /\ insights # << >>) =>
        LET far == {i \in DOMAIN AnalysedValues : FarFromMean(AnalysedValues[i], AnalysedValues)}
        IN  IF far = {} THEN InsightsOfType("outlier") = << >>
            ELSE /\ Len(InsightsOfType("outlier")) = 1
                 /\ InsightsOfType("outlier")[1].value = <<Cardinality(far)>>

\* C13: a value is reported as an outlier exactly when it lies more than two
\* population standard deviations from the mean, and for the measure values
\* [10, 20, 30, 1000] generateInsights emits a max insight with value 1000
\* rendered "1.0K", a min insight with value 10 and an outlier insight
\* reporting at least one outlier.
C13_OutliersAndExample ==
    /\ OutliersAreTheFarValues
    /\ (pc = "insights" /\ AnalysedValues = <<10, 20, 30, 1000>>) =>
          /\ InsightsOfType("max") # << >>
          /\ InsightsOfType("max")[1].value = <<1000>>
          /\ InsightsOfType("max")[1].description = "The maximum Sales is 1.0K"
          /\ InsightsOfType("min") # << >>
          /\ InsightsOfType("min")[1].value = <<10>>
          /\ InsightsOfType("outlier") # << >>
          /\ InsightsOfType("outlier")[1].value[1] >= 1

\* the example without its outlier
ExampleMaxAndMin ==
    (pc = "insights" /\ AnalysedValues = <<10, 20, 30, 1000>>) =>
        /\ InsightsOfType("max")[1].value = <<1000>>
        /\ InsightsOfType("max")[1].description = "The maximum Sales is 1.0K"
        /\ InsightsOfType("min")[1].value = <<10>>

\* an outlier is reported
SomeOutlierReported == pc = "insights" /\ InsightsOfType("outlier") # << >>

InsightTypes == [i \in DOMAIN insights |-> insights[i].type]

\* the kinds in their fixed order, the optional ones present as stated, with
\* the top-category insight present when the x hint names a column for which
\* IsGrouping holds
ExpectedTypes(IsGrouping(_)) ==
    LET vals == AnalysedValues
    IN  <<"max", "min">>
          \o (IF xHint # Undefined THEN <<"trend">> ELSE << >>)
          \o (IF \E i \in DOMAIN vals : FarFromMean(vals[i], vals)
              THEN <<"outlier">> ELSE << >>)
          \o <<"distribution">>
          \o (IF \E c \in Range(schema.columns) : c.name = xHint /\ IsGrouping(c)
              THEN <<"comparison">> ELSE << >>)

\* C18: generateInsights emits its insights in the fixed order max, min,
\* trend, outlier, variability, top-category, where max, min and variability
\* are always present for a non-empty numeric target, trend iff an x field
\* hint is supplied, outlier iff at least one outlier exists, and top-category
\* iff the x field is a categorical column; no kind appears twice.
C18_FixedOrder ==
    (pc = "insights" /\ insights # << >>) =>
        InsightTypes = ExpectedTypes(IsCategoricalColumn)

\* the same with every string column taken as categorical, as the generator
\* takes it
FixedOrderOverStringColumns ==
    (pc = "insights" /\ insights # << >>) =>
        InsightTypes = ExpectedTypes(IsStringColumn)

\* the categories of the rows that carry a numeric measure, in the order the
\* rows first show them
RECURSIVE EncounteredCategories(_, _, _, _)
EncounteredCategories(data, categoryName, targetName, seen) ==
    IF data = << >> THEN seen
    ELSE LET category == String(Get(Head(data), categoryName))
             counts == ~ NumberOf(Get(Head(data), targetName)).nan
         IN  EncounteredCategories(Tail(data), categoryName, targetName,
                 IF counts /\ category \notin Range(seen) THEN Append(seen, category)
                 ELSE seen)

\* the summed measure of a category
CategoryTotal(data, categoryName, targetName, category) ==
    Sum([r \in DOMAIN data |->
            IF String(Get(data[r], categoryName)) = category
               /\ ~ NumberOf(Get(data[r], targetName)).nan
            THEN NumberOf(Get(data[r], targetName)).n
            ELSE 0])

\* C19: the top-category insight reports the category with the highest summed
\* target measure, and among several categories of the highest total the one
\* encountered first in row order, whatever the labels look like.
C19_TopCategoryFirstEncountered ==
    (pc = "insights" /\ InsightsOfType("comparison") # << >>) =>
        LET target == targetColumn(schema, yHint)[1].name
            seen == EncounteredCategories(rows, xHint, target, << >>)
            Total(c) == CategoryTotal(rows, xHint, target, c)
            best == CHOOSE i \in DOMAIN seen :
                        /\ \A j \in DOMAIN seen : Total(seen[j]) <= Total(seen[i])
                        /\ \A j \in 1..(i - 1) : Total(seen[j]) < Total(seen[i])
        IN  /\ InsightsOfType("comparison")[1].value = <<Total(seen[best])>>
            /\ InsightsOfType("comparison")[1].description =
                  "\"" \o seen[best] \o "\" leads with "
                     \o formatNumber(Total(seen[best]), 1) \o " total " \o target

\* the same over rows whose labels do not read as integers
TopCategoryFirstEncounteredAmongText ==
    (\A r \in DOMAIN rows : ~ IsArrayIndex(String(Get(rows[r], xHint)))) =>
        C19_TopCategoryFirstEncountered

-----------------------------------------------------------------------------
(* The recommendation scenario, under SpecRecommend *)

RecommendationsOfType(type) ==
    LET IsOfType(r) == r.type = type
    IN  SelectSeq(recommendations, IsOfType)

\* C14: for the dataset with columns Month (datetime), Region (string, 3
\* distinct values) and Sales (number) and 12 rows, recommendCharts includes
\* a line and a bar recommendation, both with a score above 0, and no heatmap
\* recommendation.
C14_MonthlySalesScenario ==
    (pc = "recommended" /\ schema = MonthlySalesSchema) =>
        /\ \E i \in DOMAIN recommendations :
              recommendations[i].type = "line" /\ recommendations[i].suitabilityScore > 0
        /\ \E i \in DOMAIN recommendations :
              recommendations[i].type = "bar" /\ recommendations[i].suitabilityScore > 0
        /\ RecommendationsOfType("heatmap") = << >>

\* the scenario's recommendations: a line chart of Sales over Month among them
C14_Witness ==
    /\ pc = "recommended"
    /\ schema = MonthlySalesSchema
    /\ RecommendationsOfType("line") # << >>
    /\ RecommendationsOfType("line")[1].suggestedEncodings.x = "Month"
    /\ RecommendationsOfType("line")[1].suggestedEncodings.y = "Sales"

-----------------------------------------------------------------------------
(* Claims about named columns and default bindings, under SpecParse *)

\* the schema has no datetime column and exactly one string column
OnlyStringColumn(sch) ==
    /\ SelectSeq(sch.columns, IsDatetimeColumn) = << >>
    /\ Len(SelectSeq(sch.columns, IsStringColumn)) = 1

\* the numeric columns the text names, in schema order
NamedNumericColumns ==
    LET IsNamed(c) == IsNumberColumn(c) /\ Names(prompt, c)
    IN  SelectSeq(schema.columns, IsNamed)

\* the scenario of the specification
BarChartScenario ==
    (/\ pc = "parsed"
     /\ prompt = "Show sales by category as a bar chart"
     /\ schema = SalesByCategorySchema) =>
        /\ intent.chartType = "bar"
        /\ intent.yField = "Sales"
        /\ intent.xField = "Category"

\* C15 as claimed: for a schema with no datetime column whose only string
\* column is S, a prompt that contains the keyword "bar chart" and names a
\* numeric column N and S yields chartType "bar", yField N and xField S.
C15_BarChartPrompt ==
    /\ BarChartScenario
    /\ (/\ pc = "parsed"
        /\ OnlyStringColumn(schema)
        /\ Includes(normalizeText(prompt), "bar chart")
        /\ Names(prompt, SelectSeq(schema.columns, IsStringColumn)[1])) =>
          \A n \in DOMAIN NamedNumericColumns :
              /\ intent.chartType = "bar"
              /\ intent.yField = NamedNumericColumns[n].name
              /\ intent.xField = SelectSeq(schema.columns, IsStringColumn)[1].name

\* no chart keyword longer than "bar chart" that stands for another chart
\* type occurs in the text
BarChartIsLongest(text) ==
    \A j \in Occurring(normalizeText(text)) :
        Len(CHART_TYPE_KEYWORDS[j][1]) > Len("bar chart")
            => CHART_TYPE_KEYWORDS[j][2][1] = "bar"

\* C15 amended: when moreover no longer keyword of another chart type occurs
\* in the prompt, the intent has chartType "bar", xField S, and as yField the
\* first numeric column in schema order that the prompt names.
C15_LongestBarChartPrompt ==
    /\ BarChartScenario
    /\ (/\ pc = "parsed"
        /\ OnlyStringColumn(schema)
        /\ Includes(normalizeText(prompt), "bar chart")
        /\ BarChartIsLongest(prompt)
        /\ Names(prompt, SelectSeq(schema.columns, IsStringColumn)[1])
        /\ NamedNumericColumns # << >>) =>
          /\ intent.chartType = "bar"
          /\ intent.yField = NamedNumericColumns[1].name
          /\ intent.xField = SelectSeq(schema.columns, IsStringColumn)[1].name

\* a bar-chart prompt that names the string column and two numeric columns
C15_Witness ==
    /\ pc = "parsed"
    /\ OnlyStringColumn(schema)
    /\ Includes(normalizeText(prompt), "bar chart")
    /\ BarChartIsLongest(prompt)
    /\ Names(prompt, SelectSeq(schema.columns, IsStringColumn)[1])
    /\ Len(NamedNumericColumns) = 2
    /\ intent.chartType = "bar"
    /\ intent.yField = "Sales"
    /\ intent.xField = "Region"

\* the text names no column of the schema
NamesNoColumn == \A c \in Range(schema.columns) : ~ Names(prompt, c)

\* the default bindings as stated, over the columns for which IsCat holds as
\* the categorical ones
DefaultBindings(IsCat(_)) ==
    LET categorical == SelectSeq(schema.columns, IsCat)
        datetime == SelectSeq(schema.columns, IsDatetimeColumn)
        numeric == numericColumnsOf(schema)
    IN  /\ intent.xField =
              IF datetime # << >> THEN datetime[1].name
              ELSE IF categorical # << >> THEN categorical[1].name
              ELSE Undefined
        /\ intent.yField = IF numeric # << >> THEN numeric[1].name ELSE Undefined
        /\ IF Len(categorical) >= 2
           THEN /\ intent.colorField # intent.xField
                /\ \E c \in Range(categorical) : c.name = intent.colorField
           ELSE intent.colorField = Undefined

\* C20: when the text names no column, parsePrompt binds x to the first
\* datetime column, else to the first categorical column, else leaves it
\* unset; y to the first numeric column; and color to a second categorical
\* column distinct from x whenever one exists, leaving it unset otherwise.
C20_DefaultBindings ==
    (pc = "parsed" /\ NamesNoColumn) => DefaultBindings(IsCategoricalColumn)

\* the same with every string column taken as categorical, as the parser
\* takes it
DefaultBindingsOverStringColumns ==
    (pc = "parsed" /\ NamesNoColumn) => DefaultBindings(IsStringColumn)

-----------------------------------------------------------------------------
(* Claims about the combo and heatmap specifications, under SpecParse and *)
(* SpecRecommend                                                          *)

HasColumn(sch, name, Is(_)) == \E c \in Range(sch.columns) : c.name = name /\ Is(c)

\* a bar layer and a line layer on one categorical x field, with two distinct
\* numeric measures
ComboIsWellFormed(spec, sch) ==
    /\ Len(spec.layer) = 2
    /\ spec.layer[1].mark = "bar"
    /\ spec.layer[2].mark = "line"
    /\ spec.layer[1].x.field = spec.layer[2].x.field
    /\ HasColumn(sch, spec.layer[1].x.field, IsCategoricalColumn)
    /\ HasColumn(sch, spec.layer[1].y.field, IsNumberColumn)
    /\ HasColumn(sch, spec.layer[2].y.field, IsNumberColumn)
    /\ spec.layer[1].y.field # spec.layer[2].y.field

RecommendedCombosWellFormed ==
    pc = "recommended" =>
        \A i \in DOMAIN recommendations :
            recommendations[i].type = "combo" =>
                /\ ComboIsWellFormed(recommendations[i].vegaLiteSpec, schema)
                /\ Len(numericColumnsOf(schema)) >= 2

\* C16: every combo specification, from recommendCharts or from
\* buildSpecFromIntent on a parsed intent, is a bar layer and a line layer
\* that share one categorical x field and encode two distinct numeric
\* measures, and none is produced for a schema without a second numeric
\* column.
C16_ComboTwoMeasures ==
    /\ RecommendedCombosWellFormed
    /\ (pc = "compiled" /\ compiled.mark = "layer") =>
          /\ ComboIsWellFormed(compiled, schema)
          /\ Len(numericColumnsOf(schema)) >= 2

\* categorical columns on both nominal axes, a numeric column on the
\* mean-aggregated quantitative color channel
HeatmapIsWellFormed(spec, sch) ==
    /\ spec.x.type = "nominal"
    /\ spec.y.type = "nominal"
    /\ HasColumn(sch, spec.x.field, IsCategoricalColumn)
    /\ HasColumn(sch, spec.y.field, IsCategoricalColumn)
    /\ spec.color.type = "quantitative"
    /\ spec.color.aggregate = "mean"
    /\ HasColumn(sch, spec.color.field, IsNumberColumn)

RecommendedHeatmapsWellFormed ==
    pc = "recommended" =>
        \A i \in DOMAIN recommendations :
            recommendations[i].type = "heatmap" =>
                HeatmapIsWellFormed(recommendations[i].vegaLiteSpec, schema)

\* C17: every heatmap specification, from recommendCharts or from
\* buildSpecFromIntent on a parsed intent, has categorical columns on its x
\* and y axes and a numeric column on its mean-aggregated color channel.
C17_HeatmapChannels ==
    /\ RecommendedHeatmapsWellFormed
    /\ (pc = "compiled" /\ compiled.mark = "rect") =>
          HeatmapIsWellFormed(compiled, schema)

\* no heatmap compiled from a parsed intent meets the statement: its y axis
\* carries the intent's numeric y field, or its color channel a string column
CompiledHeatmapsIllFormed ==
    (pc = "compiled" /\ compiled.mark = "rect") => ~ HeatmapIsWellFormed(compiled, schema)

\* no combo compiled from a parsed intent meets the statement: its line layer
\* carries the color field, a string column, or the measure of the bar layer
CompiledCombosIllFormed ==
    (pc = "compiled" /\ compiled.mark = "layer") => ~ ComboIsWellFormed(compiled, schema)

-----------------------------------------------------------------------------
(* Claims about the field bindings of the recommendations, under SpecRecommend *)

\* the catalog entry of an archetype
CatalogEntry(type) == CHART_TYPES[CatalogIndex(type)]

\* C21: for every recommendation the suggested x binding is the first
\* datetime column when the archetype requires temporal data, else the first
\* categorical column, else the first numeric column, and the suggested y
\* binding is the first numeric column; two recommendations whose archetypes
\* agree on requiring temporal data have the same bindings whatever their
\* scores.
C21_FieldBindings ==
    pc = "recommended" =>
        LET cols == getColumnsByType(schema)
        IN  /\ \A i \in DOMAIN recommendations :
                  LET r == recommendations[i]
                  IN  /\ r.suggestedEncodings.x =
                            IF CatalogEntry(r.type).requirements.needsDatetime
                            THEN cols.datetime[1].name
                            ELSE IF cols.categorical # << >> THEN cols.categorical[1].name
                            ELSE cols.numeric[1].name
                      /\ r.suggestedEncodings.y = cols.numeric[1].name
            /\ \A i, j \in DOMAIN recommendations :
                  CatalogEntry(recommendations[i].type).requirements.needsDatetime
                     = CatalogEntry(recommendations[j].type).requirements.needsDatetime
                  => /\ recommendations[i].suggestedEncodings.x
                           = recommendations[j].suggestedEncodings.x
                     /\ recommendations[i].suggestedEncodings.y
                           = recommendations[j].suggestedEncodings.y

\* a result with a datetime x for a temporal archetype beside a categorical x
\* for another and a numeric x for neither, at different scores
C21_Witness ==
    /\ pc = "recommended"
    /\ \E i, j \in DOMAIN recommendations :
          /\ recommendations[i].suitabilityScore # recommendations[j].suitabilityScore
          /\ HasColumn(schema, recommendations[i].suggestedEncodings.x, IsDatetimeColumn)
          /\ HasColumn(schema, recommendations[j].suggestedEncodings.x, IsCategoricalColumn)

\* the fields a recommendation places on quantitative axes
QuantitativeFields(spec) ==
    {ch.field : ch \in {c \in {spec.x, spec.y} : c.type = "quantitative" /\ c.field # Undefined}}

\* C22: in every scatter, bubble and histogram recommendation each field on
\* a quantitative axis (x and y for scatter and bubble, the binned x for
\* histogram) is a number-typed column of the schema.
C22_QuantitativeAxesNumeric ==
    pc = "recommended" =>
        \A i \in DOMAIN recommendations :
            recommendations[i].type \in {"scatter", "bubble", "histogram"} =>
                /\ recommendations[i].vegaLiteSpec.x.type = "quantitative"
                /\ \A f \in QuantitativeFields(recommendations[i].vegaLiteSpec) :
                      HasColumn(schema, f, IsNumberColumn)

\* the same over the schemas without a categorical column
QuantitativeAxesNumericWithoutCategories ==
    getColumnsByType(schema).categorical = << >> => C22_QuantitativeAxesNumeric

-----------------------------------------------------------------------------
(* Claims about the aggregation and the reach of ad hoc generation, under
   SpecParse *)

\* the measure channel of a compiled bar, line, area or pie spec
MeasureChannel(spec) == IF spec.theta # NoChannel THEN spec.theta ELSE spec.y

\* C26: the measure channel of a compiled bar, line, area or pie spec is
\* aggregated with the aggregation of the intent, and with sum only when
\* that aggregation is unset or sum.
C26_AggregationHonoured ==
    (pc = "compiled" /\ compiled # NoSpec
        /\ intent.chartType \in {"bar", "line", "area", "pie"}) =>
        MeasureChannel(compiled).aggregate =
            IF intent.aggregation \in {Undefined, "sum"} THEN "sum"
            ELSE intent.aggregation

\* the measure channel of these specs is aggregated with sum whatever the
\* intent carries
MeasureAlwaysSummed ==
    (pc = "compiled" /\ compiled # NoSpec
        /\ intent.chartType \in {"bar", "line", "area", "pie"}) =>
        MeasureChannel(compiled).aggregate = "sum"

\* a compiled spec whose intent asks for another aggregation than sum
SomeOtherAggregationCompiled ==
    /\ pc = "compiled" /\ compiled # NoSpec
    /\ intent.chartType \in {"bar", "line", "area", "pie"}
    /\ intent.aggregation \notin {Undefined, "sum"}

\* a prompt that consists of the keyword of an archetype
ArchetypePrompts ==
    {"create a scatter chart", "create a heatmap chart", "create a combo chart", "histogram"}

\* C27: when the prompt consists of the keyword of an archetype that
\* recommendCharts recommends for the schema, compiling the parsed intent
\* yields a spec.
C27_RecommendedCanBeGenerated ==
    (pc = "compiled" /\ prompt \in ArchetypePrompts
        /\ \E i \in DOMAIN recommendCharts(rows, schema) :
              recommendCharts(rows, schema)[i].type = findChartType(prompt)) =>
        compiled # NoSpec

\* the same over the schemas that have a categorical or a datetime column
RecommendedCanBeGeneratedWithCategories ==
    (\E i \in DOMAIN schema.columns :
        IsCategoricalColumn(schema.columns[i]) \/ IsDatetimeColumn(schema.columns[i]))
    => C27_RecommendedCanBeGenerated

-----------------------------------------------------------------------------
(* Claims about the example prompts, under SpecDetect *)

\* the example prompts that name a chart type in words, each with that type
NamedTypes ==
    << <<EXAMPLE_PROMPTS.turkish[1], "bar">>,
       <<EXAMPLE_PROMPTS.turkish[3], "pie">>,
       <<EXAMPLE_PROMPTS.turkish[4], "scatter">>,
       <<EXAMPLE_PROMPTS.turkish[5], "area-stacked">>,
       <<EXAMPLE_PROMPTS.english[1], "bar">>,
       <<EXAMPLE_PROMPTS.english[3], "pie">>,
       <<EXAMPLE_PROMPTS.english[4], "scatter">>,
       <<EXAMPLE_PROMPTS.english[5], "line">> >>

\* C30: for every example prompt that names a chart type in words the
\* detection returns the named type; "Create a pie chart showing the
\* distribution by region" is detected as pie.
C30_ExamplePromptsDetected ==
    pc = "detected" =>
        \A i \in DOMAIN NamedTypes :
            prompt = NamedTypes[i][1] => detected = NamedTypes[i][2]

\* every example prompt naming a type other than the English pie prompt is
\* detected as named, and that one is detected as histogram
OnlyPieExampleMisdetected ==
    pc = "detected" =>
        \A i \in DOMAIN NamedTypes :
            prompt = NamedTypes[i][1] =>
                detected = IF prompt = EXAMPLE_PROMPTS.english[3] THEN "histogram"
                           ELSE NamedTypes[i][2]

-----------------------------------------------------------------------------
(* Claims about overlapping loadFile calls, under SpecLoad *)

\* the loadFile calls made so far
Started == {i \in LoadIds : loads[i].state # "idle"}

\* the call that was started last
LastStarted == CHOOSE i \in Started : \A j \in Started : j <= i

\* after every call made has completed, the dataset is the one the call
\* started last produced
LastStartedWins ==
    (/\ Cardinality(Started) >= 2
     /\ \A i \in Started : loads[i].state = "done"
     /\ ~ ExtractionFails(loads[LastStarted].file)) =>
        dataset = parseFile(loads[LastStarted].file, lenientDates).value

\* isLoading is true while some call is in flight
LoadingWhileInFlight ==
    (\E i \in LoadIds : loads[i].state = "pending") => isLoading

\* C29: when two loadFile calls overlap, after both have completed the
\* active dataset is the one produced by the call that was started last, and
\* isLoading is true at every moment at which some load is in flight.
C29_OverlappingLoads == LastStartedWins /\ LoadingWhileInFlight

-----------------------------------------------------------------------------
(* usePromptHistory *)

MAX_HISTORY == 20

PromptHistoryItem(id, text, timestamp, chartType) ==
    [id |-> id, prompt |-> text, timestamp |-> timestamp, chartType |-> chartType]

\* Array.prototype.slice(0, n)
SliceTo(seq, n) == SubSeq(seq, 1, IF Len(seq) < n THEN Len(seq) ELSE n)

\* addPrompt without the filter of the entries of the same prompt
addPrompt_noFilter(hist, time, text, chartType) ==
    LET newItem == PromptHistoryItem(ToString(time), text, time, chartType)
    IN  SliceTo(<<newItem>> \o hist, MAX_HISTORY)

\* the history after addPrompt(text, chartType) at Date.now() = time
addPrompt(hist, time, text, chartType) ==
    LET newItem == PromptHistoryItem(ToString(time), text, time, chartType)
        filtered == SelectSeq(hist, LAMBDA item : item.prompt # text)
    IN  SliceTo(<<newItem>> \o filtered, MAX_HISTORY)

\* the history after removeItem(id)
removeItem(hist, id) == SelectSeq(hist, LAMBDA item : item.id # id)

\* the history after clearHistory()
clearHistory == << >>

(* SpecHistory: addPrompt, removeItem and clearHistory on the history.  Prompts
   are compared for equality only, so a prompt not yet in the history is
   always the first such prompt of the pool.  An addPrompt of a new prompt
   one millisecond after the last call is not counted; every other call is
   counted in calls, up to MaxEdits. *)

MaxEdits == 1

\* the time up to which the clock runs: far enough for the limit to cut
MaxNow == MAX_HISTORY + 2

PromptText(k) == "prompt " \o ToString(k)

PromptsOf(hist) == {hist[i].prompt : i \in DOMAIN hist}

FreshPrompt(hist) ==
    PromptText(CHOOSE k \in 1..(MAX_HISTORY + 1) :
                  /\ PromptText(k) \notin PromptsOf(hist)
                  /\ \A j \in 1..(k - 1) : PromptText(j) \in PromptsOf(hist))

\* the first, second and last position of the history
EdgePositions(hist) == {1, 2, Len(hist)} \cap DOMAIN hist

InitHistory ==
    /\ pc = "history"
    /\ history = << >>
    /\ now = 0
    /\ calls = 0
    /\ pending = << >>
    /\ isGenerating = FALSE
    /\ lastPrompt = ""
    /\ lenientDates = FALSE
    /\ prompt = ""
    /\ IdleInfer /\ IdleAnalyze /\ IdleSchema /\ IdleDetect /\ IdleRecommend
    /\ IdleParse /\ IdleSession /\ IdleInsights /\ IdleChart

\* addPrompt(text, chartType), elapsed milliseconds after the last call
AddPrompt(text, chartType, elapsed) ==
    /\ pc = "history"
    /\ now + elapsed <= MaxNow
    /\ LET counted == elapsed = 0 \/ text \in PromptsOf(history)
       IN  /\ counted => calls < MaxEdits
           /\ calls' = IF counted THEN calls + 1 ELSE calls
    /\ now' = now + elapsed
    /\ history' = addPrompt(history, now', text, chartType)
    /\ UNCHANGED <<pc, values, lenientDates, columnType, rows, schema, prompt,
                   detected, recommendations, intent, compiled,
                   sessionVars, insightVars, chartVars,
                   pending, isGenerating, lastPrompt>>

RemoveItem(id) ==
    /\ pc = "history"
    /\ calls < MaxEdits
    /\ calls' = calls + 1
    /\ history' = removeItem(history, id)
    /\ UNCHANGED <<pc, values, lenientDates, columnType, rows, schema, prompt,
                   detected, recommendations, intent, compiled,
                   sessionVars, insightVars, chartVars,
                   pending, now, isGenerating, lastPrompt>>

ClearHistory ==
    /\ pc = "history"
    /\ calls < MaxEdits
    /\ calls' = calls + 1
    /\ history' = clearHistory
    /\ UNCHANGED <<pc, values, lenientDates, columnType, rows, schema, prompt,
                   detected, recommendations, intent, compiled,
                   sessionVars, insightVars, chartVars,
                   pending, now, isGenerating, lastPrompt>>

HistoryChartTypes == {Undefined, "bar"}

NextHistory ==
    \/ \E text \in {FreshPrompt(history)} \cup {history[i].prompt : i \in EdgePositions(history)},
          elapsed \in {0, 1} :
          AddPrompt(text, IF elapsed = 0 THEN Undefined ELSE "bar", elapsed)
    \/ \E i \in EdgePositions(history) : RemoveItem(history[i].id)
    \/ ClearHistory

SpecHistory == InitHistory /\ [][NextHistory]_vars

-----------------------------------------------------------------------------
(* Claims about the prompt history, under SpecHistory *)

\* at most MAX_HISTORY entries, no two of the same prompt, and the entries
\* in the order of their addition, the most recent first
HistoryInvariant ==
    /\ Len(history) <= MAX_HISTORY
    /\ \A i, j \in DOMAIN history : i # j => history[i].prompt # history[j].prompt
    /\ \A i, j \in DOMAIN history : i < j => history[i].timestamp >= history[j].timestamp

\* an addPrompt puts its prompt first, and does not lengthen the history
\* when the prompt is in it already
AddPromptMovesToFront ==
    \A text \in PromptsOf(history) \cup {FreshPrompt(history)},
       chartType \in HistoryChartTypes, elapsed \in {0, 1} :
        AddPrompt(text, chartType, elapsed) =>
            /\ history'[1].prompt = text
            /\ history'[1].timestamp = now'
            /\ text \in PromptsOf(history) =>
                  /\ Len(history') = Len(history)
                  /\ PromptsOf(history') = PromptsOf(history)

\* C28: after any sequence of addPrompt, removeItem and clearHistory the
\* history holds at most 20 entries, no two entries have the same prompt
\* and the most recently added prompt is first; re-adding a prompt of the
\* history moves it to the front without increasing the length.
C28_HistoryBounded == [] HistoryInvariant /\ [][AddPromptMovesToFront]_vars

\* a full history whose oldest prompt was added again and moved to the front:
\* the first MAX_HISTORY prompts are all held, and the first of them leads
C28_Witness ==
    /\ pc = "history"
    /\ Len(history) = MAX_HISTORY
    /\ now > MAX_HISTORY
    /\ PromptsOf(history) = {PromptText(k) : k \in 1..MAX_HISTORY}
    /\ history[1].prompt = PromptText(1)
    /\ history[1].timestamp = now

-----------------------------------------------------------------------------
(* useChartGeneration and the Index page *)

\* the state of useChartGeneration
ChartState(selected, custom, in) ==
    [selectedChart |-> selected, customSpec |-> custom, currentIntent |-> in]

\* the state after selectChart(chart)
selectChart(chart) ==
    ChartState(chart, NoSpec,
               ChartIntent(chart.type, chart.suggestedEncodings.x,
                           chart.suggestedEncodings.y, chart.suggestedEncodings.color,
                           Undefined, Undefined))

\* generateFromPrompt(text) of the render whose dataset is ds: the state
\* after the call and the value returned
generateFromPrompt(ds, text, state) ==
    IF ds = NoDataset THEN [state |-> state, result |-> NoSpec]
    ELSE LET in == parsePrompt(text, ds.schema)
             spec == buildSpecFromIntent(ds.data, ds.schema, in)
         IN  IF spec # NoSpec
             THEN [state |-> ChartState(NoChart, spec, in), result |-> spec]
             ELSE [state |-> ChartState(state.selectedChart, state.customSpec, in),
                   result |-> NoSpec]

\* const currentSpec = customSpec || selectedChart?.vegaLiteSpec || null
currentSpec ==
    IF customSpec # NoSpec THEN customSpec
    ELSE IF selectedChart # NoChart THEN selectedChart.vegaLiteSpec
    ELSE NoSpec

(* SpecSession: loadFile, selectChart and prompt submissions on the Index
   page.  FileUpload takes no file while isLoading (its input is disabled and
   its drop zone takes no pointer events), PromptInput submits only with a
   dataset and while no prompt is being processed, and a click on one of the
   first five entries of the history submits at any time.  The history the
   page mounts with is what an earlier visit stored.  calls counts the
   submissions, up to MaxSubmits. *)

MaxSubmits == 1

RegionSalesRows ==
    << << <<"Region", Str("x")>>, <<"Sales", Num("5")>> >> >>

SalesUnitsRows ==
    << << <<"Sales", Num("5")>>, <<"Units", Num("2")>> >> >>

SessionFiles ==
    { File("sales.csv", Resolves(RegionSalesRows)),
      File("rows.json", Resolves(SalesUnitsRows)) }

\* the datasets of the session files, and their recommendations
SessionDatasets == {parseFile(file, FALSE).value : file \in SessionFiles}

SessionRecommendations ==
    [ds \in SessionDatasets |-> recommendCharts(ds.data, ds.schema)]

\* the recommendations memo: recommendCharts(dataset.data, dataset.schema),
\* or nothing without a dataset
sessionRecommendations ==
    IF dataset = NoDataset THEN << >>
    ELSE IF dataset \in SessionDatasets THEN SessionRecommendations[dataset]
    ELSE recommendCharts(dataset.data, dataset.schema)

SessionPrompts ==
    {"Show sales by region as a bar chart", "create a scatter chart", "histogram"}

\* the histories an earlier visit may have stored
StoredHistories ==
    { << >>, <<PromptHistoryItem("0", "histogram", 0, "histogram")>> }

\* the recommendations of the gallery that are clicked: the first and the last
GalleryCharts ==
    {sessionRecommendations[i] :
        i \in {1, Len(sessionRecommendations)} \cap DOMAIN sessionRecommendations}

\* the prompts PromptInput can submit now
SubmittablePrompts ==
    {text \in SessionPrompts : dataset # NoDataset /\ ~ isGenerating}
        \cup {history[i].prompt : i \in (1..5) \cap DOMAIN history}

\* what the timeout of handlePromptSubmit closes over
Closure(text, ds, in) == [prompt |-> text, dataset |-> ds, currentIntent |-> in]

InitSession ==
    /\ pc = "session"
    /\ dataset = NoDataset
    /\ isLoading = FALSE
    /\ error = NoError
    /\ loads = [i \in LoadIds |-> NotCalled]
    /\ lastToast = NoToast
    /\ selectedChart = NoChart
    /\ customSpec = NoSpec
    /\ currentIntent = NoIntent
    /\ history \in StoredHistories
    /\ pending = << >>
    /\ now = 0
    /\ isGenerating = FALSE
    /\ lastPrompt = ""
    /\ calls = 0
    /\ lenientDates = FALSE
    /\ prompt = ""
    /\ IdleInfer /\ IdleAnalyze /\ IdleSchema /\ IdleDetect /\ IdleRecommend
    /\ IdleParse /\ IdleInsights

\* a click on a recommendation of the gallery
SelectChart(chart) ==
    /\ pc = "session"
    /\ chart \in GalleryCharts
    /\ LET next == selectChart(chart)
       IN  /\ selectedChart' = next.selectedChart
           /\ customSpec' = next.customSpec
           /\ currentIntent' = next.currentIntent
    /\ UNCHANGED <<pc, values, lenientDates, columnType, rows, schema, prompt,
                   detected, recommendations, intent, compiled,
                   sessionVars, insightVars, pageVars>>

\* handlePromptSubmit(text) up to setTimeout
HandlePromptSubmit(text) ==
    /\ pc = "session"
    /\ calls < MaxSubmits
    /\ calls' = calls + 1
    /\ IF dataset = NoDataset
       THEN /\ lastToast' = [title |-> "No dataset loaded",
                             description |-> "Please upload a dataset first",
                             variant |-> "destructive"]
            /\ UNCHANGED <<pending, isGenerating, lastPrompt>>
       ELSE /\ isGenerating' = TRUE
            /\ lastPrompt' = text
            /\ pending' = Append(pending, Closure(text, dataset, currentIntent))
            /\ UNCHANGED lastToast
    /\ UNCHANGED <<pc, values, lenientDates, columnType, rows, schema, prompt,
                   detected, recommendations, intent, compiled,
                   dataset, isLoading, error, loads, insightVars, chartVars,
                   history, now>>

\* the callback of setTimeout: call is what generateFromPrompt(prompt) of the
\* closure did and returned
TimeoutCallback(closure, call) ==
    /\ selectedChart' = call.state.selectedChart
    /\ customSpec' = call.state.customSpec
    /\ currentIntent' = call.state.currentIntent
    /\ now' = now + 1
    /\ history' = addPrompt(history, now', closure.prompt,
                            closure.currentIntent.chartType)
    /\ isGenerating' = FALSE
    /\ lastToast' =
          IF call.result # NoSpec
          THEN [title |-> "Chart generated!",
                description |-> "Created a "
                    \o Or(closure.currentIntent.chartType, "chart")
                    \o " visualization",
                variant |-> Undefined]
          ELSE lastToast

\* the timeout of handlePromptSubmit fires, 500 ms after the submission
PromptTimeout ==
    /\ pc = "session"
    /\ pending # << >>
    /\ TimeoutCallback(Head(pending),
                       generateFromPrompt(Head(pending).dataset, Head(pending).prompt,
                                          ChartState(selectedChart, customSpec,
                                                     currentIntent)))
    /\ pending' = Tail(pending)
    /\ UNCHANGED <<pc, values, lenientDates, columnType, rows, schema, prompt,
                   detected, recommendations, intent, compiled,
                   dataset, isLoading, error, loads, insightVars,
                   lastPrompt, calls>>

NextSession ==
    \/ \E i \in LoadIds, file \in SessionFiles : ~ isLoading /\ LoadFileStart(i, file)
    \/ \E i \in LoadIds : LoadFileSettle(i)
    \/ \E chart \in GalleryCharts : SelectChart(chart)
    \/ \E text \in SubmittablePrompts : HandlePromptSubmit(text)
    \/ PromptTimeout

SpecSession == InitSession /\ [][NextSession]_vars

-----------------------------------------------------------------------------
(* Claims about the session, under SpecSession *)

ColumnNamesOf(sch) == {sch.columns[i].name : i \in DOMAIN sch.columns}

\* the fields the insights memo passes to generateInsights
InsightBindings ==
    {selectedChart.suggestedEncodings.x, selectedChart.suggestedEncodings.y} \ {Undefined}

\* C23: whenever the displayed currentSpec is non-null its inline data is
\* the row sequence of the active dataset, and the insights are computed
\* from field bindings of the active dataset's schema; replacing the dataset
\* leaves no chart or selection of the previous dataset displayed.
C23_ChartOfActiveDataset ==
    (pc = "session" /\ dataset # NoDataset) =>
        /\ currentSpec # NoSpec => currentSpec.data = dataset.data
        /\ selectedChart # NoChart => InsightBindings \subseteq ColumnNamesOf(dataset.schema)

\* the same while only one file has been loaded
ChartOfActiveDatasetOnFirstLoad ==
    (\A i \in LoadIds : i > 1 => loads[i].state = "idle") => C23_ChartOfActiveDataset

\* the step in which the timeout of a submission fires
TimeoutFires == pending # << >> /\ pending' = Tail(pending)

\* the chart type parsed from the prompt whose timeout fires
ParsedChartType == parsePrompt(Head(pending).prompt, Head(pending).dataset.schema).chartType

\* C24: the history entry recorded for a submission, and the chart type
\* named in the success notification, carry the chart type parsed from the
\* prompt of that submission.
C24_HistoryCarriesParsedType ==
    [][TimeoutFires =>
          /\ history'[1].prompt = Head(pending).prompt
          /\ history'[1].chartType = ParsedChartType
          /\ lastToast' # lastToast =>
                lastToast'.description = "Created a " \o ParsedChartType \o " visualization"]_vars

\* the entry carries the chart type of the intent current at the submission
HistoryCarriesStaleType ==
    [][TimeoutFires =>
          /\ history'[1].prompt = Head(pending).prompt
          /\ history'[1].chartType = Head(pending).currentIntent.chartType]_vars

\* currentIntent is the intent the displayed spec was compiled from
IntentDescribesSpec ==
    IF customSpec # NoSpec
    THEN customSpec = buildSpecFromIntent(customSpec.data, dataset.schema, currentIntent)
    ELSE selectedChart # NoChart => currentIntent = selectChart(selectedChart).currentIntent

\* a generateFromPrompt call that produces no spec changes nothing
NoSpecChangesNothing ==
    (/\ TimeoutFires
     /\ buildSpecFromIntent(Head(pending).dataset.data, Head(pending).dataset.schema,
                            parsePrompt(Head(pending).prompt,
                                        Head(pending).dataset.schema)) = NoSpec)
    => UNCHANGED chartVars

\* C25: if currentSpec is non-null then currentIntent describes it, and a
\* generateFromPrompt call that produces no spec leaves selectedChart,
\* customSpec and currentIntent unchanged.
C25_IntentDescribesSpec ==
    [](pc = "session" => IntentDescribesSpec) /\ [][NoSpecChangesNothing]_vars

\* a call that produces no spec leaves selectedChart and customSpec unchanged
NoSpecKeepsChart ==
    [][(/\ TimeoutFires
        /\ buildSpecFromIntent(Head(pending).dataset.data, Head(pending).dataset.schema,
                               parsePrompt(Head(pending).prompt,
                                           Head(pending).dataset.schema)) = NoSpec)
       => UNCHANGED <<selectedChart, customSpec>>]_vars

=============================================================================
